---- MODULE Spec2Model ----
(***************************************************************************)
(* A model of pepbut, an authoritative DNS name server: domain names with  *)
(* case-insensitive equality, the zone record store and its lookup, the    *)
(* authority (origin -> zone map, zone loading, longest-suffix search),    *)
(* the wire decoding of queries and the encoding of responses.             *)
(*                                                                         *)
(* Bytes are integers 0..255, a label is a sequence of bytes, a name is a  *)
(* sequence of labels (leaf first), a message is a sequence of bytes.      *)
(***************************************************************************)
EXTENDS Integers, Sequences, FiniteSets, TLC

VARIABLES zones, op, conn, lock, tasks

vars == <<zones, op, conn, lock, tasks>>

(***************************************************************************)
(* Bounds of the model.                                                    *)
(***************************************************************************)
\* Zone files carry serials 1..MaxSerial.
MaxSerial == 2

(***************************************************************************)
(* Bytes and integers.                                                     *)
(***************************************************************************)
RECURSIVE BitAnd(_, _)
BitAnd(a, b) ==
    IF a = 0 \/ b = 0 THEN 0
    ELSE (a % 2) * (b % 2) + 2 * BitAnd(a \div 2, b \div 2)

RECURSIVE BitOr(_, _)
BitOr(a, b) ==
    IF a = 0 THEN b
    ELSE IF b = 0 THEN a
    ELSE (IF (a % 2) + (b % 2) > 0 THEN 1 ELSE 0) + 2 * BitOr(a \div 2, b \div 2)

\* put_u16_be / put_u32_be: big-endian bytes of an integer.
U16(n) == <<(n \div 256) % 256, n % 256>>

U32(n) == <<(n \div 16777216) % 256, (n \div 65536) % 256, (n \div 256) % 256, n % 256>>

\* The big-endian value of two bytes.
BE16(hi, lo) == hi * 256 + lo

RECURSIVE Flatten(_)
Flatten(ss) == IF ss = <<>> THEN <<>> ELSE Head(ss) \o Flatten(Tail(ss))

(***************************************************************************)
(* Names.                                                                  *)
(***************************************************************************)
is_ascii_alphabetic(b) == (b >= 65 /\ b <= 90) \/ (b >= 97 /\ b <= 122)

to_ascii_lowercase(b) == IF b >= 65 /\ b <= 90 THEN b + 32 ELSE b

eq_lower_byte(a, b) ==
    \/ a = b
    \/ /\ BitOr(a, 32) = BitOr(b, 32)
       /\ is_ascii_alphabetic(a)
       /\ is_ascii_alphabetic(b)

eq_lower(a, b) ==
    /\ Len(a) = Len(b)
    /\ \A i \in 1..Len(a) : eq_lower_byte(a[i], b[i])

\* PartialEq for Name (eq_impl!).
NameEq(a, b) ==
    /\ Len(a) = Len(b)
    /\ \A i \in 1..Len(a) : eq_lower(a[i], b[i])

\* Hash for Name: what is fed to the hasher (the length, then each label lowercased).
NameHash(n) ==
    <<Len(n), [i \in 1..Len(n) |-> [j \in 1..Len(n[i]) |-> to_ascii_lowercase(n[i][j])]]>>

\* Name::pop: the name without its first label.
pop(n) == IF n = <<>> THEN <<>> ELSE Tail(n)

(***************************************************************************)
(* HashMap<Name, V>: a function whose domain is the set of stored keys; a  *)
(* key is found by its hash and then by equality.                          *)
(***************************************************************************)
MapKeys(m, q) == {k \in DOMAIN m : NameHash(k) = NameHash(q) /\ NameEq(k, q)}

MapHas(m, q) == MapKeys(m, q) # {}

MapGet(m, q) == m[CHOOSE k \in MapKeys(m, q) : TRUE]

\* The map with q bound to v: the stored key is kept when one equal to q exists.
MapPut(m, q, v) ==
    LET key == IF MapHas(m, q) THEN CHOOSE k \in MapKeys(m, q) : TRUE ELSE q
    IN  [k \in DOMAIN m \cup {key} |-> IF k = key THEN v ELSE m[k]]

EmptyMap == [k \in {} |-> <<>>]
(***************************************************************************)
(* Records and zones.                                                      *)
(***************************************************************************)
\* Record type numbers (RData::record_type).
TypeA == 1
TypeNS == 2
TypeCNAME == 5
TypeSOA == 6
TypePTR == 12
TypeMX == 15
TypeTXT == 16
TypeAAAA == 28
TypeSRV == 33

RDataA(addr) == [type |-> TypeA, addr |-> addr, name |-> <<>>]

RDataNS(n) == [type |-> TypeNS, addr |-> <<>>, name |-> n]

RDataCNAME(n) == [type |-> TypeCNAME, addr |-> <<>>, name |-> n]

RDataAAAA(addr) == [type |-> TypeAAAA, addr |-> addr, name |-> <<>>]

\* RData::PTR holds an address of 4 or 16 octets.
RDataPTR(addr) == [type |-> TypePTR, addr |-> addr, name |-> <<>>]

RDataMX(preference, exchange) ==
    [type |-> TypeMX, addr |-> <<>>, name |-> exchange, preference |-> preference]

RDataSRV(priority, weight, port, target) ==
    [type |-> TypeSRV, addr |-> <<>>, name |-> target,
     priority |-> priority, weight |-> weight, port |-> port]

\* RData::TXT holds the bytes of a string.
RDataTXT(s) == [type |-> TypeTXT, addr |-> <<>>, name |-> <<>>, text |-> s]

\* Record::new.
Record(n, ttl, rdata) == [name |-> n, ttl |-> ttl, rdata |-> rdata]

record_type(r) == r.rdata.type

EmptyTypeMap == [t \in {} |-> <<>>]

\* Zone::new.
ZoneNew(origin, serial) == [origin |-> origin, serial |-> serial, records |-> EmptyMap]

\* Zone::push: entry(name).or_insert_with(HashMap::new)
\*                 .entry(type).or_insert_with(Vec::new).push(record).
push(z, r) ==
    LET h == IF MapHas(z.records, r.name) THEN MapGet(z.records, r.name) ELSE EmptyTypeMap
        t == record_type(r)
        v == IF t \in DOMAIN h THEN h[t] ELSE <<>>
        h2 == [x \in DOMAIN h \cup {t} |-> IF x = t THEN Append(v, r) ELSE h[x]]
    IN  [z EXCEPT !.records = MapPut(z.records, r.name, h2)]

\* Zone::with_records: the records pushed one after another.
RECURSIVE PushAll(_, _)
PushAll(z, rs) == IF rs = <<>> THEN z ELSE PushAll(push(z, Head(rs)), Tail(rs))

with_records(origin, serial, rs) == PushAll(ZoneNew(origin, serial), rs)

\* Zone::soa_record: the synthetic SOA of the zone.
soa_record(z) == [origin |-> z.origin, serial |-> z.serial]

\* The variants of LookupResult.
Records(v) == [kind |-> "Records", recs |-> v]

CNAMELookup(c) == [kind |-> "CNAMELookup", cname |-> c]

CNAMEResult(c, found, auths) ==
    [kind |-> "CNAME", cname |-> c, found |-> found, authorities |-> auths]

NameExists(soa) == [kind |-> "NameExists", soa |-> soa]

NoName(soa) == [kind |-> "NoName", soa |-> soa]

NoZone == [kind |-> "NoZone"]

Delegated(auths, glue) ==
    [kind |-> "Delegated", authorities |-> auths, glue_records |-> glue]

\* A faulty lookup: a CNAME at the name wins over records of the requested type.
lookup_cname_first(z, n, t) ==
    IF MapHas(z.records, n)
    THEN LET h == MapGet(z.records, n)
         IN  IF TypeCNAME \in DOMAIN h /\ h[TypeCNAME] # <<>>
             THEN CNAMELookup(h[TypeCNAME][1])
             ELSE IF t \in DOMAIN h THEN Records(h[t])
             ELSE NameExists(soa_record(z))
    ELSE NoName(soa_record(z))

\* A faulty lookup: a name below an owner of the zone that holds NS records,
\* other than the origin, is answered with those NS records as authorities and
\* the addresses stored for their targets as glue.
lookup_delegates(z, n, t) ==
    LET cuts == {c \in DOMAIN z.records :
                    /\ TypeNS \in DOMAIN z.records[c]
                    /\ ~NameEq(c, z.origin)
                    /\ Len(c) < Len(n)
                    /\ NameEq(SubSeq(n, Len(n) - Len(c) + 1, Len(n)), c)}
        c == CHOOSE x \in cuts : TRUE
        auths == z.records[c][TypeNS]
        glue == Flatten([i \in 1..Len(auths) |->
                    IF MapHas(z.records, auths[i].rdata.name)
                       /\ TypeA \in DOMAIN MapGet(z.records, auths[i].rdata.name)
                    THEN MapGet(z.records, auths[i].rdata.name)[TypeA]
                    ELSE <<>>])
    IN  IF cuts # {} THEN Delegated(auths, glue)
        ELSE IF MapHas(z.records, n)
        THEN LET h == MapGet(z.records, n)
             IN  IF t \in DOMAIN h THEN Records(h[t])
                 ELSE IF TypeCNAME \in DOMAIN h /\ h[TypeCNAME] # <<>>
                 THEN CNAMELookup(h[TypeCNAME][1])
                 ELSE NameExists(soa_record(z))
        ELSE NoName(soa_record(z))

\* Zone::lookup.
lookup(z, n, t) ==
    IF MapHas(z.records, n)
    THEN LET h == MapGet(z.records, n)
         IN  IF t \in DOMAIN h THEN Records(h[t])
             ELSE IF TypeCNAME \in DOMAIN h /\ h[TypeCNAME] # <<>>
             THEN CNAMELookup(h[TypeCNAME][1])
             ELSE NameExists(soa_record(z))
    ELSE NoName(soa_record(z))

\* Zone::iter: every record of the zone (the order across owners and types is
\* the hash map's; here a set).
ZoneRecordSet(z) ==
    UNION {UNION {{z.records[k][t][i] : i \in 1..Len(z.records[k][t])} :
                  t \in DOMAIN z.records[k]} : k \in DOMAIN z.records}

\* LookupResult::records.
records(l) == IF l.kind = "Records" THEN [some |-> TRUE, v |-> l.recs]
              ELSE [some |-> FALSE, v |-> <<>>]
(***************************************************************************)
(* Zone files.  A file is read in two stages: stage 1 yields the origin    *)
(* and the serial, stage 2 the zone with its records.  Either stage may    *)
(* fail on a malformed file.                                               *)
(***************************************************************************)
Ok(v) == [ok |-> TRUE, val |-> v]

Err(e) == [ok |-> FALSE, val |-> e]

\* Stage 1 of the zone reader: the origin and the serial, or an error.
read_from_stage1(f) ==
    IF f.s1ok THEN Ok([origin |-> f.origin, serial |-> f.serial, file |-> f])
    ELSE Err("stage1")

\* Stage 2 of the zone reader: the zone of the file's records, pushed in file
\* order, or an error.
read_from_stage2(partial_state, f) ==
    IF f.s2ok THEN Ok(with_records(partial_state.origin, partial_state.serial, f.recs))
    ELSE Err("stage2")

(***************************************************************************)
(* The authority.                                                          *)
(***************************************************************************)
\* A faulty load_zone: a file whose serial equals the held serial replaces the
\* held zone.
load_zone_equal_replaces(zs, f) ==
    LET s1 == read_from_stage1(f)
    IN  IF ~s1.ok THEN [zones |-> zs, result |-> "Err"]
        ELSE LET partial_state == s1.val
                 s2 == read_from_stage2(partial_state, f)
             IN  IF MapHas(zs, partial_state.origin)
                    /\ ~(MapGet(zs, partial_state.origin).serial <= partial_state.serial)
                 THEN [zones |-> zs, result |-> "false"]
                 ELSE IF ~s2.ok THEN [zones |-> zs, result |-> "Err"]
                 ELSE [zones |-> MapPut(zs, partial_state.origin, s2.val),
                       result |-> "true"]

\* A faulty load_zone: the entry is written before stage 2 has succeeded, so a
\* failing stage 2 leaves an empty zone behind.
load_zone_insert_first(zs, f) ==
    LET s1 == read_from_stage1(f)
    IN  IF ~s1.ok THEN [zones |-> zs, result |-> "Err"]
        ELSE LET partial_state == s1.val
                 s2 == read_from_stage2(partial_state, f)
                 empty == ZoneNew(partial_state.origin, partial_state.serial)
             IN  IF MapHas(zs, partial_state.origin)
                    /\ ~(MapGet(zs, partial_state.origin).serial < partial_state.serial)
                 THEN [zones |-> zs, result |-> "false"]
                 ELSE IF ~s2.ok
                 THEN [zones |-> MapPut(zs, partial_state.origin, empty), result |-> "Err"]
                 ELSE [zones |-> MapPut(zs, partial_state.origin, s2.val),
                       result |-> "true"]

\* A faulty load_zone: a readable file replaces the held zone whatever its serial.
load_zone_any_serial(zs, f) ==
    LET s1 == read_from_stage1(f)
    IN  IF ~s1.ok THEN [zones |-> zs, result |-> "Err"]
        ELSE LET partial_state == s1.val
                 s2 == read_from_stage2(partial_state, f)
             IN  IF ~s2.ok THEN [zones |-> zs, result |-> "Err"]
                 ELSE [zones |-> MapPut(zs, partial_state.origin, s2.val),
                       result |-> "true"]

\* Authority::load_zone: the zone map after the call and the call's result,
\* "true" (inserted or updated), "false" (ignored) or "Err".
load_zone(zs, f) ==
    LET s1 == read_from_stage1(f)
    IN  IF ~s1.ok THEN [zones |-> zs, result |-> "Err"]
        ELSE LET partial_state == s1.val
             IN  IF MapHas(zs, partial_state.origin)
                 THEN \* Entry::Occupied
                      LET current_serial == MapGet(zs, partial_state.origin).serial
                      IN  IF current_serial < partial_state.serial
                          THEN LET s2 == read_from_stage2(partial_state, f)
                               IN  IF ~s2.ok THEN [zones |-> zs, result |-> "Err"]
                                   ELSE [zones |-> MapPut(zs, partial_state.origin, s2.val),
                                         result |-> "true"]
                          ELSE [zones |-> zs, result |-> "false"]
                 ELSE \* Entry::Vacant
                      LET s2 == read_from_stage2(partial_state, f)
                      IN  IF ~s2.ok THEN [zones |-> zs, result |-> "Err"]
                          ELSE [zones |-> MapPut(zs, partial_state.origin, s2.val),
                                result |-> "true"]

None == [some |-> FALSE]

Some(v) == [some |-> TRUE, val |-> v]

\* A faulty find_zone: the search starts at the parent of the name.
RECURSIVE find_zone_from_parent(_, _)
find_zone_from_parent(zs, n) ==
    IF n = <<>> THEN None
    ELSE IF MapHas(zs, pop(n)) /\ pop(n) # <<>> THEN Some(MapGet(zs, pop(n)))
    ELSE find_zone_from_parent(zs, pop(n))

\* Authority::find_zone: the zone of the name, else of the name without its
\* first label, and so on while the name is not empty.
RECURSIVE find_zone(_, _)
find_zone(zs, n) ==
    IF n = <<>> THEN None
    ELSE IF MapHas(zs, n) THEN Some(MapGet(zs, n))
    ELSE find_zone(zs, pop(n))
(***************************************************************************)
(* Wire decoding.  A cursor is a buffer and a position; reading past the   *)
(* end of the buffer aborts the caller (Buf::get_u8, get_u16_be and        *)
(* advance assert that enough bytes remain).                               *)
(***************************************************************************)
\* Buf::remaining for a cursor: 0 once the position is at or past the end.
remaining(buf, pos) == IF pos >= Len(buf) THEN 0 ELSE Len(buf) - pos

\* A faulty hop limit: one more pointer is followed.
jumps_limit_one_more == 20 + 1

\* The hop limit of name decoding.
MaxJumps == 20

\* A faulty name decoding: the cursor is left after the terminating zero octet
\* even when pointers were followed.
RECURSIVE NameDecodeLoop_no_restore(_, _, _, _, _)
NameDecodeLoop_no_restore(buf, pos, name, orig_pos, jumps) ==
    IF pos >= Len(buf) THEN [status |-> "panic"]
    ELSE LET length == buf[pos + 1]
         IN  IF length = 0 THEN [status |-> "ok", name |-> name, pos |-> pos + 1]
             ELSE IF length > 63
             THEN IF pos + 1 >= Len(buf) THEN [status |-> "panic"]
                  ELSE IF jumps = 20
                  THEN [status |-> "err", err |-> "NamePointerRecursionLimitReached",
                        pos |-> pos + 2]
                  ELSE NameDecodeLoop_no_restore(buf, (length % 64) * 256 + buf[pos + 2],
                                                 name, orig_pos, jumps + 1)
             ELSE IF Len(buf) - (pos + 1) < length THEN [status |-> "panic"]
                  ELSE NameDecodeLoop_no_restore(
                           buf, pos + 1 + length,
                           Append(name, SubSeq(buf, pos + 2, pos + 1 + length)),
                           orig_pos, jumps)

\* <Name as ProtocolDecode>::decode, as a loop over (position, labels so far,
\* position after the first pointer, pointers followed).
\* The result: status "ok" (name, pos), "err" (err, pos) or "panic".
RECURSIVE NameDecodeLoop(_, _, _, _, _)
NameDecodeLoop(buf, pos, name, orig_pos, jumps) ==
    IF remaining(buf, pos) < 1 THEN [status |-> "panic"]
    ELSE LET length == buf[pos + 1]
         IN  IF length = 0
             THEN [status |-> "ok", name |-> name,
                   pos |-> IF jumps > 0 THEN orig_pos ELSE pos + 1]
             ELSE IF length > 63
             THEN IF remaining(buf, pos + 1) < 1 THEN [status |-> "panic"]
                  ELSE LET offset == BitAnd(length, 63) * 256 + buf[pos + 2]
                       IN  IF jumps # 0 /\ jumps = MaxJumps
                           THEN [status |-> "err",
                                 err |-> "NamePointerRecursionLimitReached",
                                 pos |-> pos + 2]
                           ELSE NameDecodeLoop(buf, offset, name,
                                               IF jumps = 0 THEN pos + 2 ELSE orig_pos,
                                               jumps + 1)
             ELSE IF remaining(buf, pos + 1) < length THEN [status |-> "panic"]
                  ELSE NameDecodeLoop(buf, pos + 1 + length,
                                      Append(name, SubSeq(buf, pos + 2, pos + 1 + length)),
                                      orig_pos, jumps)

NameDecode(buf, pos) == NameDecodeLoop(buf, pos, <<>>, 0, 0)

\* A faulty header check: only QR is tested (mask 0b1000_0000).
header_acceptable_qr_only(b) == BitAnd(b, 128) = 0

\* The header check of QueryMessage::decode: QR, OPCODE and TC are all zero.
header_acceptable(b) == BitAnd(b, 250) = 0

\* QueryMessage::decode on the caller's cursor (Authority::process_message reads
\* from the same cursor afterwards).  The result: status "ok" (query, pos),
\* "err" (err, pos) or "panic".
QueryMessage_decode(buf) ==
    IF remaining(buf, 0) < 2 THEN [status |-> "panic"]
    ELSE IF remaining(buf, 2) < 1 THEN [status |-> "panic"]
    ELSE IF ~header_acceptable(buf[3])
    THEN [status |-> "err", err |-> "UnacceptableHeader", pos |-> 3]
    ELSE \* seek(Current(1)): position 4
    IF remaining(buf, 4) < 2 THEN [status |-> "panic"]
    ELSE IF BE16(buf[5], buf[6]) < 1
    THEN [status |-> "err", err |-> "NoQuestions", pos |-> 6]
    ELSE \* seek(Current(6)): position 12
    LET n == NameDecode(buf, 12)
    IN  IF n.status = "panic" THEN [status |-> "panic"]
        ELSE IF n.status = "err" THEN n
        ELSE IF remaining(buf, n.pos) < 2 THEN [status |-> "panic"]
        ELSE IF remaining(buf, n.pos + 2) < 2 THEN [status |-> "panic"]
        ELSE IF BE16(buf[n.pos + 3], buf[n.pos + 4]) # 1
        THEN [status |-> "err", err |-> "UnacceptableClass", pos |-> n.pos + 4]
        ELSE [status |-> "ok",
              pos |-> n.pos + 4,
              query |-> [id |-> BE16(buf[1], buf[2]),
                         name |-> n.name,
                         record_type |-> BE16(buf[n.pos + 1], buf[n.pos + 2])]]

\* A faulty error reply: the AA bit is set (flags byte 0b1000_0100).
encode_err_aa(id, rcode) == U16(id) \o <<132, rcode>> \o <<0, 0, 0, 0, 0, 0, 0, 0>>

\* encode_err: the reply to a message that cannot be answered.
encode_err(id, rcode) == U16(id) \o <<128, rcode>> \o <<0, 0, 0, 0, 0, 0, 0, 0>>
(***************************************************************************)
(* Wire encoding.  An encoder state is the bytes written so far and the    *)
(* compression table (name -> offset); ok is FALSE once a cast has failed. *)
(***************************************************************************)
EncNew == [ok |-> TRUE, buf |-> <<>>, names |-> EmptyMap]

EncFail(enc) == [enc EXCEPT !.ok = FALSE]

\* put_u8, put_slice, put_u16_be, put_u32_be on the writer.
Put(enc, bytes) == IF enc.ok THEN [enc EXCEPT !.buf = @ \o bytes] ELSE enc

\* A faulty name encoding: a suffix is recorded at the offset of its first
\* label's bytes instead of the offset of the length octet before them.
RECURSIVE NameEncode_offset_after_length(_, _)
NameEncode_offset_after_length(enc, name) ==
    IF ~enc.ok THEN enc
    ELSE IF name = <<>> THEN Put(enc, <<0>>)
    ELSE IF MapHas(enc.names, name)
    THEN LET pos == MapGet(enc.names, name)
         IN  IF 49152 + pos > 65535 THEN EncFail(enc) ELSE Put(enc, U16(49152 + pos))
    ELSE IF Len(enc.buf) > 65535 \/ Len(name[1]) > 255 THEN EncFail(enc)
    ELSE NameEncode_offset_after_length(
             [ok |-> TRUE,
              buf |-> enc.buf \o <<Len(name[1])>> \o name[1],
              names |-> MapPut(enc.names, name, Len(enc.buf) + 1)],
             pop(name))

\* <Name as ProtocolEncode>::encode.
RECURSIVE NameEncode(_, _)
NameEncode(enc, name) ==
    IF ~enc.ok THEN enc
    ELSE IF name = <<>> THEN Put(enc, <<0>>)
    ELSE IF MapHas(enc.names, name)
    THEN LET pos == MapGet(enc.names, name)
         IN  IF 49152 + pos > 65535 THEN EncFail(enc) ELSE Put(enc, U16(49152 + pos))
    ELSE IF Len(enc.buf) > 65535 \/ Len(name[1]) > 255 THEN EncFail(enc)
    ELSE NameEncode([ok |-> TRUE,
                     buf |-> enc.buf \o <<Len(name[1])>> \o name[1],
                     names |-> MapPut(enc.names, name, Len(enc.buf))],
                    pop(name))

\* Name::encode_len: the predicted length of the encoded name against a set of
\* names already written, and that set with the name's new suffixes added.
RECURSIVE NameEncodeLenLoop(_, _, _)
NameEncodeLenLoop(names, name, len) ==
    IF name = <<>> THEN [len |-> len + 1, names |-> names]
    ELSE IF MapHas(names, name) THEN [len |-> len + 2, names |-> names]
    ELSE NameEncodeLenLoop(MapPut(names, name, 0), pop(name), len + 1 + Len(name[1]))

NameEncodeLen(names, name) == NameEncodeLenLoop(names, name, 0)

\* The decimal digits of an octet, as ASCII (HEX_DIGITS, OCTET_DECIMAL_2,
\* OCTET_DECIMAL_3).
OctetLabel(n) ==
    IF n < 10 THEN <<48 + n>>
    ELSE IF n < 100 THEN <<48 + (n \div 10), 48 + (n % 10)>>
    ELSE <<48 + (n \div 100), 48 + ((n \div 10) % 10), 48 + (n % 10)>>

\* The hexadecimal digit of a nibble, as ASCII (HEX_DIGITS).
NibbleLabel(n) == IF n < 10 THEN <<48 + n>> ELSE <<97 + (n - 10)>>

LabelInAddr == <<105, 110, 45, 97, 100, 100, 114>>
LabelIp6 == <<105, 112, 54>>
LabelArpa == <<97, 114, 112, 97>>

\* From<IpAddr> for Name: the reverse-lookup name of an address.
NameFromIp(addr) ==
    IF Len(addr) = 4
    THEN <<OctetLabel(addr[4]), OctetLabel(addr[3]), OctetLabel(addr[2]),
           OctetLabel(addr[1]), LabelInAddr, LabelArpa>>
    ELSE [i \in 1..32 |->
             LET o == addr[16 - ((i - 1) \div 2)]
             IN  NibbleLabel(IF i % 2 = 1 THEN o % 16 ELSE o \div 16)]
         \o <<LabelIp6, LabelArpa>>

Min(a, b) == IF a < b THEN a ELSE b

\* A faulty TXT length: every 255 bytes count one length byte more, also when
\* nothing follows them (l / 255 + 1 + l).
TxtEncodeLen_extra_segment(l) == (l \div 255) + 1 + l

\* RData::encode_len for TXT data of l bytes: (l / 255 + min(1, l % 255)) + l.
TxtEncodeLen(l) == ((l \div 255) + Min(1, l % 255)) + l

\* RData::encode_len.
RDataEncodeLen(rdata, names) ==
    CASE rdata.type = TypeA -> 4
      [] rdata.type = TypeAAAA -> 16
      [] rdata.type \in {TypeCNAME, TypeNS} -> NameEncodeLen(names, rdata.name).len
      [] rdata.type = TypeMX -> 2 + NameEncodeLen(names, rdata.name).len
      [] rdata.type = TypePTR -> NameEncodeLen(names, NameFromIp(rdata.addr)).len
      [] rdata.type = TypeSRV -> 6 + NameEncodeLen(names, rdata.name).len
      [] rdata.type = TypeTXT -> TxtEncodeLen(Len(rdata.text))

\* s.as_bytes().chunks(255), each written as its length and its bytes.
RECURSIVE TxtChunks(_)
TxtChunks(s) ==
    IF s = <<>> THEN <<>>
    ELSE IF Len(s) <= 255 THEN <<Len(s)>> \o s
    ELSE <<255>> \o SubSeq(s, 1, 255) \o TxtChunks(SubSeq(s, 256, Len(s)))

\* <RData as ProtocolEncode>::encode.
RDataEncode(enc, rdata) ==
    CASE rdata.type \in {TypeA, TypeAAAA} -> Put(enc, rdata.addr)
      [] rdata.type \in {TypeCNAME, TypeNS} -> NameEncode(enc, rdata.name)
      [] rdata.type = TypeMX -> NameEncode(Put(enc, U16(rdata.preference)), rdata.name)
      [] rdata.type = TypePTR -> NameEncode(enc, NameFromIp(rdata.addr))
      [] rdata.type = TypeSRV ->
            NameEncode(Put(enc, U16(rdata.priority) \o U16(rdata.weight) \o U16(rdata.port)),
                       rdata.name)
      [] rdata.type = TypeTXT -> Put(enc, TxtChunks(rdata.text))

\* <RecordTrait as ProtocolEncode>::encode for a stored record: owner, type,
\* class IN, ttl, rdlength, rdata.  The length is cast to u16.
RecordEncode(enc, r) ==
    LET e1 == Put(Put(Put(NameEncode(enc, r.name), U16(record_type(r))), U16(1)), U32(r.ttl))
        len == RDataEncodeLen(r.rdata, e1.names)
        e2 == IF len > 65535 THEN EncFail(e1) ELSE Put(e1, U16(len))
    IN  RDataEncode(e2, r.rdata)

\* The labels of the constant names of the synthetic SOA.
LabelNs1 == <<110, 115, 49>>
LabelWob == <<119, 111, 98>>
LabelZone == <<122, 111, 110, 101>>
LabelHostmistress == <<104, 111, 115, 116, 109, 105, 115, 116, 114, 101, 115, 115>>
LabelAs64241 == <<97, 115, 54, 52, 50, 52, 49>>
LabelNet == <<110, 101, 116>>

\* SOARecord::mname: ns1.wob.zone.
mname == <<LabelNs1, LabelWob, LabelZone>>

\* SOARecord::rname: hostmistress.as64241.net.
rname == <<LabelHostmistress, LabelAs64241, LabelNet>>

SoaTtl == 3600
SoaRefresh == 1000
SoaRetry == 2400
SoaExpire == 604800
SoaMinimum == 3600

\* <SOARecord as RecordTrait>::encode_rdata_len.
SoaEncodeRdataLen(names) ==
    LET m == NameEncodeLen(names, mname)
    IN  m.len + NameEncodeLen(m.names, rname).len + 20

\* <RecordTrait as ProtocolEncode>::encode for the synthetic SOA.
SoaEncode(enc, soa) ==
    LET e1 == Put(Put(Put(NameEncode(enc, soa.origin), U16(TypeSOA)), U16(1)), U32(SoaTtl))
        e2 == Put(e1, U16(SoaEncodeRdataLen(e1.names)))
        e3 == NameEncode(NameEncode(e2, mname), rname)
    IN  Put(e3, U32(soa.serial) \o U32(SoaRefresh) \o U32(SoaRetry)
                 \o U32(SoaExpire) \o U32(SoaMinimum))

\* encode_vec!: the records of a list, one after another.
RECURSIVE EncodeVec(_, _)
EncodeVec(enc, v) == IF v = <<>> THEN enc ELSE EncodeVec(RecordEncode(enc, Head(v)), Tail(v))

\* LookupResult::authoritative.
authoritative(l) == l.kind # "NoZone"

\* LookupResult::rcode.
rcode(l) == IF l.kind = "NoName" THEN 3 ELSE IF l.kind = "NoZone" THEN 5 ELSE 0

\* A faulty counts(): the synthetic SOA is counted in the authority section.
counts_soa_in_authority(l) ==
    CASE l.kind = "Records" -> <<Len(l.recs), 0, 0>>
      [] l.kind = "CNAME" -> <<1 + Len(l.found), Len(l.authorities), 0>>
      [] l.kind = "CNAMELookup" -> <<1, 0, 0>>
      [] l.kind = "Delegated" -> <<0, Len(l.authorities), Len(l.glue_records)>>
      [] l.kind \in {"NameExists", "NoName"} -> <<0, 1, 0>>
      [] l.kind = "NoZone" -> <<0, 0, 0>>

\* LookupResult::counts: ANCOUNT, NSCOUNT, ARCOUNT.
counts(l) ==
    CASE l.kind = "Records" -> <<Len(l.recs), 0, 0>>
      [] l.kind = "CNAME" -> <<1 + Len(l.found), Len(l.authorities), 0>>
      [] l.kind = "CNAMELookup" -> <<1, 0, 0>>
      [] l.kind = "Delegated" -> <<0, Len(l.authorities), Len(l.glue_records)>>
      [] l.kind \in {"NameExists", "NoName"} -> <<0, 0, 1>>
      [] l.kind = "NoZone" -> <<0, 0, 0>>

\* A faulty encode: the glue records of a delegation are written before its
\* authorities.
LookupEncode_glue_first(enc, l) ==
    CASE l.kind = "Records" -> EncodeVec(enc, l.recs)
      [] l.kind = "CNAME" ->
            EncodeVec(EncodeVec(RecordEncode(enc, l.cname), l.found), l.authorities)
      [] l.kind = "CNAMELookup" -> RecordEncode(enc, l.cname)
      [] l.kind = "Delegated" -> EncodeVec(EncodeVec(enc, l.glue_records), l.authorities)
      [] l.kind \in {"NameExists", "NoName"} -> SoaEncode(enc, l.soa)
      [] l.kind = "NoZone" -> enc

\* <LookupResult as ProtocolEncode>::encode: the records after the question.
LookupEncode(enc, l) ==
    CASE l.kind = "Records" -> EncodeVec(enc, l.recs)
      [] l.kind = "CNAME" ->
            EncodeVec(EncodeVec(RecordEncode(enc, l.cname), l.found), l.authorities)
      [] l.kind = "CNAMELookup" -> RecordEncode(enc, l.cname)
      [] l.kind = "Delegated" -> EncodeVec(EncodeVec(enc, l.authorities), l.glue_records)
      [] l.kind \in {"NameExists", "NoName"} -> SoaEncode(enc, l.soa)
      [] l.kind = "NoZone" -> enc

\* A faulty header: the flags byte has AA set whatever the lookup result.
flags_byte_always_aa(l) == 132

\* The first flags byte of a response: QR, Opcode, AA, TC, RD.
flags_byte(l) == IF authoritative(l) THEN 132 ELSE 128

\* u16(x)? on a count: the cast fails above 65535.
CountsFit(c) == \A i \in 1..3 : c[i] <= 65535

\* <ResponseMessage as ProtocolEncode>::encode.
ResponseEncode(query, answer) ==
    LET c == counts(answer)
        hdr == Put(EncNew, U16(query.id) \o <<flags_byte(answer), rcode(answer)>> \o U16(1))
        cnt == IF CountsFit(c) THEN Put(hdr, U16(c[1]) \o U16(c[2]) \o U16(c[3]))
               ELSE EncFail(hdr)
        qst == Put(Put(NameEncode(cnt, query.name), U16(query.record_type)), U16(1))
    IN  LookupEncode(qst, answer)
(***************************************************************************)
(* Authority::process_message.                                             *)
(***************************************************************************)
\* The records of a lookup, or none: lookup(..).records().cloned()
\* .unwrap_or_else(Vec::new).
RecordsOrEmpty(l) == IF records(l).some THEN records(l).v ELSE <<>>

\* A faulty lookup of process_message: a CNAME found at the target of the first
\* CNAME is put into the answer as well.
process_lookup_chases(zs, name, rt) ==
    LET z == find_zone(zs, name)
        l == IF z.some THEN lookup(z.val, name, rt) ELSE NoZone
    IN  IF l.kind = "CNAMELookup"
        THEN IF l.cname.rdata.type = TypeCNAME
             THEN LET target == l.cname.rdata.name
                      tz == find_zone(zs, target)
                      tl == lookup(tz.val, target, rt)
                  IN  IF tz.some
                      THEN CNAMEResult(l.cname,
                                       IF tl.kind = "CNAMELookup" THEN <<tl.cname>>
                                       ELSE RecordsOrEmpty(tl),
                                       RecordsOrEmpty(lookup(tz.val, tz.val.origin, TypeNS)))
                      ELSE l
             ELSE l
        ELSE l

\* The lookup of process_message: the zone of the name, the lookup in it, and
\* one CNAME hop into a held zone.
process_lookup(zs, name, rt) ==
    LET z == find_zone(zs, name)
        l == IF z.some THEN lookup(z.val, name, rt) ELSE NoZone
    IN  IF l.kind = "CNAMELookup"
        THEN IF l.cname.rdata.type = TypeCNAME
             THEN LET target == l.cname.rdata.name
                      tz == find_zone(zs, target)
                  IN  IF tz.some
                      THEN CNAMEResult(l.cname,
                                       RecordsOrEmpty(lookup(tz.val, target, rt)),
                                       RecordsOrEmpty(lookup(tz.val, tz.val.origin, TypeNS)))
                      ELSE l
             ELSE l
        ELSE l

\* Authority::process_message: status "reply" with the bytes of the reply, or
\* "panic" when a read past the end of the message aborts the call; decode is
\* the outcome of QueryMessage::decode and lookup the LookupResult answered.
process_message(zs, buf) ==
    LET d == QueryMessage_decode(buf)
    IN  IF d.status = "panic" THEN [status |-> "panic", decode |-> d]
        ELSE IF d.status = "err"
        THEN IF remaining(buf, d.pos) < 2 THEN [status |-> "panic", decode |-> d]
             ELSE [status |-> "reply", decode |-> d,
                   reply |-> encode_err(BE16(buf[d.pos + 1], buf[d.pos + 2]), 1)]
        ELSE LET l == process_lookup(zs, d.query.name, d.query.record_type)
                 e == ResponseEncode(d.query, l)
             IN  [status |-> "reply", decode |-> d, lookup |-> l,
                  reply |-> IF e.ok THEN e.buf ELSE encode_err(d.query.id, 2)]

(***************************************************************************)
(* Inputs: labels, names, zone files and messages.                         *)
(***************************************************************************)
La == <<97>>
Lb == <<98>>
Lc == <<99>>
Ld == <<100>>
Le == <<101>>
Lm == <<109>>
Ln == <<110>>
Lw == <<119>>
Lx == <<120>>
LaUp == <<65>>
LwUp == <<87>>
\* '`' and '@' differ in bit 0x20 only and are not letters.
LGrave == <<96>>
LAt == <<64>>

Root == <<>>
NameA == <<La>>
NameBA == <<Lb, La>>

Addr(n) == <<192, 0, 2, n>>

Ttl == 300

\* The record lists of the zone files, per origin.
BodyA1 ==
    << Record(NameA, Ttl, RDataNS(<<Ln, La>>)),
       Record(<<Lw, La>>, Ttl, RDataA(Addr(1))),
       Record(<<Lw, La>>, Ttl, RDataA(Addr(2))),
       Record(<<Lc, La>>, Ttl, RDataCNAME(<<Lw, Lb, La>>)),
       Record(<<Ld, La>>, Ttl, RDataCNAME(<<Lx>>)),
       Record(<<Ld, La>>, Ttl, RDataA(Addr(3))),
       Record(<<Le, La>>, Ttl, RDataCNAME(<<Lw, La>>)),
       Record(<<Le, La>>, Ttl, RDataCNAME(<<Lc, La>>)),
       Record(<<LGrave, La>>, Ttl, RDataA(Addr(4))) >>

BodyA2 ==
    << Record(<<Lw, La>>, Ttl, RDataCNAME(<<Lc, La>>)),
       Record(<<Lc, La>>, Ttl, RDataCNAME(<<Lw, La>>)),
       Record(<<Lx, Lb, La>>, Ttl, RDataA(Addr(5))) >>

\* A zone with a delegation inside it: b.a is handed to x.b.a, whose address is
\* stored as glue; e.a is an ancestor of an owner and holds nothing itself.
BodyA3 ==
    << Record(NameA, Ttl, RDataNS(<<Ln, La>>)),
       Record(NameBA, Ttl, RDataNS(<<Lx, Lb, La>>)),
       Record(<<Lx, Lb, La>>, Ttl, RDataA(Addr(5))),
       Record(<<Lx, Le, La>>, Ttl, RDataA(Addr(8))) >>

BodyB1 ==
    << Record(NameBA, Ttl, RDataNS(<<Ln, La>>)),
       Record(NameBA, Ttl, RDataNS(<<Lm, La>>)),
       Record(<<Lw, Lb, La>>, Ttl, RDataA(Addr(6))) >>

BodyB2 == <<>>

BodyR1 ==
    << Record(<<Lx>>, Ttl, RDataA(Addr(7))),
       Record(Root, Ttl, RDataNS(<<Ln, La>>)) >>

Bodies(origin) ==
    IF origin = NameA THEN {BodyA1, BodyA2, BodyA3}
    ELSE IF origin = NameBA THEN {BodyB1, BodyB2}
    ELSE {BodyR1}

Origins == {Root, NameA, NameBA}

ZoneFile(s1ok, origin, serial, s2ok, recs) ==
    [s1ok |-> s1ok, origin |-> origin, serial |-> serial, s2ok |-> s2ok, recs |-> recs]

\* The zone files: well-formed ones, ones whose record section is malformed,
\* and one whose origin or serial cannot be read.
Files ==
    {ZoneFile(FALSE, Root, 1, FALSE, <<>>)}
    \cup UNION {{ZoneFile(TRUE, o, sr, TRUE, b) : b \in Bodies(o)}
                \cup {ZoneFile(TRUE, o, sr, FALSE, <<>>)} :
                <<o, sr>> \in Origins \X (1..MaxSerial)}

\* The wire form of a name written in full.
Literal(name) ==
    Flatten([i \in 1..Len(name) |-> <<Len(name[i])>> \o name[i]]) \o <<0>>

\* A message: the 12-byte header, then the question in one of three layouts:
\*   "lit": the name in full, QTYPE, QCLASS;
\*   "ptr": a pointer to offset 18, QTYPE, QCLASS, and at offset 18 the name;
\*   "raw": the given bytes in place of the name, QTYPE, QCLASS;
\* cut to its first cut bytes unless whole.
Build(p) ==
    LET hdr == p.id \o <<p.b2, p.b3>> \o U16(p.qd) \o <<0, 0, 0, 0, 0, 0>>
        q == CASE p.enc = "lit" -> Literal(p.name) \o U16(p.qt) \o U16(p.qc)
               [] p.enc = "ptr" -> <<192, 18>> \o U16(p.qt) \o U16(p.qc) \o Literal(p.name)
               [] p.enc = "raw" -> p.raw \o U16(p.qt) \o U16(p.qc)
        full == hdr \o q
    IN  IF p.whole \/ p.cut >= Len(full) THEN full ELSE SubSeq(full, 1, p.cut)

Params(id, b2, b3, qd, enc, name, raw, qt, qc, whole, cut) ==
    [id |-> id, b2 |-> b2, b3 |-> b3, qd |-> qd, enc |-> enc, name |-> name,
     raw |-> raw, qt |-> qt, qc |-> qc, whole |-> whole, cut |-> cut]

QueryId == <<134, 42>>

\* The names asked for.
QueryNames ==
    { Root, NameA, <<LaUp>>, <<Lw, La>>, <<LwUp, LaUp>>, <<Lc, La>>, <<Ld, La>>,
      <<Le, La>>, NameBA, <<Lw, Lb, La>>, <<Lx, Lb, La>>, <<Lx>>, <<LAt, La>>,
      <<LGrave, La>> }

QueryTypes == {TypeA, TypeNS, TypeCNAME}

\* Well-formed queries, with RD clear or set, and a few that fail decoding.
QueryParams ==
    {Params(QueryId, b2, 0, 1, "lit", n, <<>>, t, 1, TRUE, 0) :
        <<b2, n, t>> \in {0, 1} \X QueryNames \X QueryTypes}
    \cup {Params(QueryId, 0, 0, 1, "ptr", n, <<>>, TypeA, qc, TRUE, 0) :
        <<n, qc>> \in {<<Lw, La>>, <<Lx>>} \X {1, 3}}
    \cup {Params(QueryId, b2, 0, qd, "lit", <<Lw, La>>, <<>>, TypeA, 1, TRUE, 0) :
        <<b2, qd>> \in {0, 128} \X {0, 1}}

(***************************************************************************)
(* The state machine: the authority's zone map and the call in progress    *)
(* with its input and its outcome.  A call is made when none is in         *)
(* progress (loads take the write lock, so a load runs alone; a query      *)
(* leaves the zone map as it is) and ends with Return.                     *)
(***************************************************************************)
Idle == [kind |-> "idle"]

\* No TCP connection is open.
NoConn == [open |-> FALSE]

\* RwLock::new: the authority's lock, held by nobody.
RwLock_new == [writer |-> FALSE, readers |-> {}]

\* No handler or loader task is running.
NoTasks == [running |-> FALSE]

Init ==
    /\ zones = EmptyMap
    /\ op = Idle
    /\ conn = NoConn
    /\ lock = RwLock_new
    /\ tasks = NoTasks

\* Authority::load_zone on a zone file.
LoadZone(f) ==
    LET r == load_zone(zones, f)
    IN  /\ op = Idle
        /\ zones' = r.zones
        /\ op' = [kind |-> "load", file |-> f, before |-> zones, result |-> r.result]
        /\ UNCHANGED <<conn, lock, tasks>>

\* Authority::process_message on a received message.
ProcessMessage(p) ==
    /\ op = Idle
    /\ op' = [kind |-> "query", params |-> p, msg |-> Build(p),
              out |-> process_message(zones, Build(p))]
    /\ UNCHANGED <<zones, conn, lock, tasks>>

\* The call returns to its caller.
Return ==
    /\ op # Idle
    /\ op' = Idle
    /\ UNCHANGED <<zones, conn, lock, tasks>>

Next ==
    \/ \E f \in Files : LoadZone(f)
    \/ \E p \in QueryParams : ProcessMessage(p)
    \/ Return

Spec == Init /\ [][Next]_vars

(***************************************************************************)
(* The same machine fed with malformed and truncated messages, over an     *)
(* authority that loads one zone file.                                     *)
(***************************************************************************)
WireFiles == {ZoneFile(TRUE, NameA, 1, TRUE, BodyA1)}

\* Byte 2 of the header: nothing, RD, AA, AA+RD, TC, an opcode bit, QR.
WireFlags == {0, 1, 4, 5, 2, 8, 128}

\* Bytes in place of a name: a pointer to itself, a pointer past the end of the
\* message, a label longer than what follows, and reserved length octets
\* (0x40 and 0x80) followed by the offset 12.
RawNames == {<<192, 12>>, <<192, 255>>, <<9, 97>>, <<64, 12>>, <<128, 12>>}

\* The longest message built below.
MaxMsgLen == 23

WireParams ==
    {Params(QueryId, b2, b3, qd, "lit", n, <<>>, TypeA, qc, TRUE, 0) :
        <<b2, b3, qd, n, qc>> \in
            WireFlags \X {0, 255} \X {0, 1, 2} \X {Root, <<LwUp, La>>} \X {1, 3}}
    \cup {Params(QueryId, b2, b3, qd, "ptr", <<Lw, La>>, <<>>, t, qc, TRUE, 0) :
        <<b2, b3, qd, t, qc>> \in
            WireFlags \X {0, 255} \X {0, 1, 2} \X {TypeA, TypeCNAME} \X {1, 3}}
    \cup {Params(QueryId, b2, 0, qd, "raw", <<>>, r, TypeA, qc, TRUE, 0) :
        <<b2, qd, r, qc>> \in {0, 1, 128} \X {0, 1} \X RawNames \X {1, 3}}
    \cup {Params(QueryId, b2, 0, qd, e, <<Lw, La>>, <<1, 97>>, TypeA, qc, FALSE, k) :
        <<b2, qd, e, qc, k>> \in
            {0, 128} \X {0, 1} \X {"lit", "ptr", "raw"} \X {1, 3} \X (0..MaxMsgLen)}

NextWire ==
    \/ \E f \in WireFiles : LoadZone(f)
    \/ \E p \in WireParams : ProcessMessage(p)
    \/ Return

SpecWire == Init /\ [][NextWire]_vars
(***************************************************************************)
(* Properties.  Names are compared below by their lowercased bytes,        *)
(* written out apart from the program's own comparison.                    *)
(***************************************************************************)
LowerByte(b) == IF b \in 65..90 THEN b + 32 ELSE b

LowerName(n) == [i \in 1..Len(n) |-> [j \in 1..Len(n[i]) |-> LowerByte(n[i][j])]]

SameName(a, b) == LowerName(a) = LowerName(b)

\* k is a label-suffix of n (n itself included), modulo ASCII case.
IsSuffix(k, n) ==
    /\ Len(k) <= Len(n)
    /\ SameName(SubSeq(n, Len(n) - Len(k) + 1, Len(n)), k)

\* The zone file of a load that went through both stages.
LoadedOk == op.kind = "load" /\ op.result = "true"

\* What a lookup of (n, t) must answer in the zone read from the records recs.
ExpectedLookup(recs, soa, n, t) ==
    LET atName == SelectSeq(recs, LAMBDA r : SameName(r.name, n))
        ofType == SelectSeq(atName, LAMBDA r : r.rdata.type = t)
        cnames == SelectSeq(atName, LAMBDA r : r.rdata.type = TypeCNAME)
    IN  IF ofType # <<>> THEN Records(ofType)
        ELSE IF cnames # <<>> THEN CNAMELookup(cnames[1])
        ELSE IF atName # <<>> THEN NameExists(soa)
        ELSE NoName(soa)

\* C1: in every zone read from a file, the lookup of every (name, type) answers
\* Records(the records of that type at that name, in file order) when there is
\* one, else CNAMELookup(the first CNAME at the name) when there is one, else
\* NameExists(soa) when the name owns other records, else NoName(soa); names
\* match modulo ASCII case and the answer is one of these four.
C1_LookupOutcome ==
    LoadedOk =>
        LET z == MapGet(zones, op.file.origin)
        IN  \A n \in QueryNames : \A t \in QueryTypes \cup {TypeSOA} :
                /\ lookup(z, n, t) =
                       ExpectedLookup(op.file.recs,
                                      [origin |-> op.file.origin, serial |-> op.file.serial],
                                      n, t)
                /\ lookup(z, n, t).kind \in {"Records", "CNAMELookup", "NameExists", "NoName"}

\* C1 witness: a loaded zone in which the four outcomes all occur, one of them
\* for a name asked in upper case, and a name with both a CNAME and an A record.
C1_Witness ==
    /\ LoadedOk
    /\ op.file.recs = BodyA1
    /\ LET z == MapGet(zones, op.file.origin)
       IN  /\ lookup(z, <<LwUp, LaUp>>, TypeA).kind = "Records"
           /\ Len(lookup(z, <<LwUp, LaUp>>, TypeA).recs) = 2
           /\ lookup(z, <<Ld, La>>, TypeA).kind = "Records"
           /\ lookup(z, <<Ld, La>>, TypeNS).kind = "CNAMELookup"
           /\ lookup(z, <<Le, La>>, TypeA).cname.rdata.name = <<Lw, La>>
           /\ lookup(z, <<Lw, La>>, TypeNS).kind = "NameExists"
           /\ lookup(z, <<LAt, La>>, TypeA).kind = "NoName"

\* The held origins that are suffixes of n.
HeldSuffixes(n) == {k \in DOMAIN zones : IsSuffix(k, n)}

\* The longest of a non-empty set of names.
Longest(ks) == CHOOSE k \in ks : \A j \in ks : Len(j) <= Len(k)

\* C2: when no held origin is the root, find_zone answers, for every name, the
\* held zone whose origin is the longest suffix of the name (the name itself
\* included) and none exactly when no held origin is a suffix.
C2_FindZoneLongestSuffix ==
    Root \notin DOMAIN zones =>
        \A n \in QueryNames :
            IF HeldSuffixes(n) = {} THEN find_zone(zones, n) = None
            ELSE find_zone(zones, n) = Some(zones[Longest(HeldSuffixes(n))])

\* C2 witness: a parent and a child origin are held, a name under the child is
\* resolved to the child, the child's origin to the child, and a name under no
\* held origin to none.
C2_Witness ==
    /\ DOMAIN zones = {NameA, NameBA}
    /\ find_zone(zones, <<Lw, Lb, La>>) = Some(zones[NameBA])
    /\ find_zone(zones, NameBA) = Some(zones[NameBA])
    /\ find_zone(zones, <<LwUp, LaUp>>) = Some(zones[NameA])
    /\ find_zone(zones, <<Lx>>) = None

\* A load whose file gives its origin and serial, for an origin already held.
LoadOnHeld == op.kind = "load" /\ op.file.s1ok /\ op.file.origin \in DOMAIN op.before

HeldSerial == op.before[op.file.origin].serial

\* The zone map with the file's zone in place of the held one.
Replaced ==
    [k \in DOMAIN op.before |->
        IF k = op.file.origin
        THEN with_records(op.file.origin, op.file.serial, op.file.recs)
        ELSE op.before[k]]

\* C3 as stated: a well-formed file for a held origin is ignored if and only if
\* its serial is strictly lower than the held serial, and replaces the held
\* zone when its serial is equal or higher.
C3_IgnoredIffStrictlyLower ==
    (LoadOnHeld /\ op.file.s2ok) =>
        IF op.file.serial < HeldSerial
        THEN op.result = "false" /\ zones = op.before
        ELSE op.result = "true" /\ zones = Replaced

\* C3 amended: a file for a held origin is ignored if and only if its serial is
\* lower than or equal to the held serial; a well-formed file replaces the held
\* zone when its serial is strictly higher.
C3_IgnoredIffNotHigher ==
    LoadOnHeld =>
        /\ op.result = "false" <=> op.file.serial <= HeldSerial
        /\ op.result = "false" => zones = op.before
        /\ (op.file.serial > HeldSerial /\ op.file.s2ok) =>
               (op.result = "true" /\ zones = Replaced)

\* C3 witness: a well-formed file with the held serial and other records than
\* the held zone's is ignored.
C3_Witness ==
    /\ LoadOnHeld
    /\ op.file.s2ok
    /\ op.file.serial = HeldSerial
    /\ with_records(op.file.origin, op.file.serial, op.file.recs) # op.before[op.file.origin]
    /\ op.result = "false"

\* C4: a load that returns an error, in either stage, leaves the zone map as it
\* was: a held zone keeps its records and serial, no entry is added.
C4_FailedLoadKeepsZones ==
    (op.kind = "load" /\ op.result = "Err") => zones = op.before

\* C4 witness: stage 2 fails on a file whose serial is higher than the serial
\* held for its origin.
C4_Witness ==
    /\ LoadOnHeld
    /\ ~op.file.s2ok
    /\ op.file.serial > HeldSerial
    /\ op.result = "Err"
(***************************************************************************)
(* The fields of a reply's header.                                         *)
(***************************************************************************)
ReplyId(r) == SubSeq(r, 1, 2)
ReplyQR(r) == r[3] \div 128
ReplyOpcode(r) == (r[3] \div 8) % 16
ReplyAA(r) == (r[3] \div 4) % 2
ReplyTC(r) == (r[3] \div 2) % 2
ReplyRD(r) == r[3] % 2
ReplyRA(r) == r[4] \div 128
ReplyZ(r) == (r[4] \div 16) % 8
ReplyRCODE(r) == r[4] % 16
ReplyQDCOUNT(r) == r[5] * 256 + r[6]
ReplyANCOUNT(r) == r[7] * 256 + r[8]
ReplyNSCOUNT(r) == r[9] * 256 + r[10]
ReplyARCOUNT(r) == r[11] * 256 + r[12]

\* A call of process_message whose message failed query decoding.
DecodeFailed == op.kind = "query" /\ op.out.decode.status = "err"

\* A call of process_message that returned a reply to a message that failed
\* query decoding.
ErrorReplied == DecodeFailed /\ op.out.status = "reply"

\* C5: whenever a message fails query decoding, at whatever stage, the ID of
\* the error reply is the first two bytes of the message.
C5_ErrorReplyEchoesId ==
    ErrorReplied => ReplyId(op.out.reply) = SubSeq(op.msg, 1, 2)

\* C6: process_message returns a reply for every message and never aborts, and
\* a message that is not decoded as a query (too short, a label or a name
\* running past the end, a pointer beyond the end) gets the error reply.
C6_NeverAborts ==
    op.kind = "query" =>
        /\ op.out.status = "reply"
        /\ op.out.decode.status # "ok" => ReplyRCODE(op.out.reply) = 1

WholeQuestion == op.kind = "query" /\ op.params.whole /\ op.params.enc \in {"lit", "ptr"}

\* QR, OPCODE and TC of a query's flags byte are all zero.
QrOpcodeTcZero(b) == b \div 128 = 0 /\ (b \div 8) % 16 = 0 /\ (b \div 2) % 2 = 0

\* C8: query decoding accepts a message only if QR, OPCODE and TC are zero
\* (else UnacceptableHeader), QDCOUNT is at least 1 (else NoQuestions) and
\* QCLASS is 1 (else UnacceptableClass); a message with its question in full is
\* accepted exactly then, whatever its AA and RD bits and its fourth byte, and
\* the accepted query carries the ID, QNAME and QTYPE of the message.
C8_DecodeAcceptance ==
    /\ (op.kind = "query" /\ op.out.decode.status = "ok") =>
           /\ Len(op.msg) >= 12
           /\ QrOpcodeTcZero(op.msg[3])
           /\ op.msg[5] * 256 + op.msg[6] >= 1
    /\ WholeQuestion =>
           LET p == op.params
               d == op.out.decode
           IN  IF ~QrOpcodeTcZero(p.b2)
               THEN d.status = "err" /\ d.err = "UnacceptableHeader"
               ELSE IF p.qd < 1
               THEN d.status = "err" /\ d.err = "NoQuestions"
               ELSE IF p.qc # 1
               THEN d.status = "err" /\ d.err = "UnacceptableClass"
               ELSE /\ d.status = "ok"
                    /\ d.query = [id |-> p.id[1] * 256 + p.id[2],
                                  name |-> p.name,
                                  record_type |-> p.qt]

\* C8 witness: a query with AA and RD set, a fourth byte of 0xff, two
\* questions and a name in upper case is accepted with the name as written.
C8_Witness ==
    /\ WholeQuestion
    /\ op.params.b2 = 5
    /\ op.params.b3 = 255
    /\ op.params.qd = 2
    /\ op.params.name = <<LwUp, La>>
    /\ op.out.decode.status = "ok"
    /\ op.out.decode.query.name = <<LwUp, La>>

\* A call of process_message that decoded a query and encoded its response.
Responded ==
    /\ op.kind = "query"
    /\ op.out.status = "reply"
    /\ op.out.decode.status = "ok"
    /\ ResponseEncode(op.out.decode.query, op.out.lookup).ok

\* C9 as stated: in the response to a decoded query RD is the query's RD, QR=1,
\* Opcode=0, TC=0, RA=0, Z=0, and AA=1 exactly when the lookup found a zone.
C9_FlagsWithRdCopied ==
    Responded =>
        LET r == op.out.reply
        IN  /\ ReplyRD(r) = op.msg[3] % 2
            /\ ReplyQR(r) = 1
            /\ ReplyOpcode(r) = 0
            /\ ReplyTC(r) = 0
            /\ ReplyRA(r) = 0
            /\ ReplyZ(r) = 0
            /\ ReplyAA(r) = 1 <=> op.out.lookup.kind # "NoZone"

\* C9 amended: in the response to a decoded query RD is 0 whatever the query's
\* RD, QR=1, Opcode=0, TC=0, RA=0, Z=0, and AA=1 exactly when the lookup result
\* is authoritative, that is anything but NoZone.
C9_FlagsWithRdClear ==
    Responded =>
        LET r == op.out.reply
        IN  /\ ReplyRD(r) = 0
            /\ ReplyQR(r) = 1
            /\ ReplyOpcode(r) = 0
            /\ ReplyTC(r) = 0
            /\ ReplyRA(r) = 0
            /\ ReplyZ(r) = 0
            /\ ReplyAA(r) = 1 <=> op.out.lookup.kind # "NoZone"

\* C9 witness: a query with RD set for a name that does not exist in its zone
\* is answered with AA set and RD clear.
C9_Witness ==
    /\ Responded
    /\ op.msg[3] % 2 = 1
    /\ op.out.lookup.kind = "NoName"
    /\ ReplyAA(op.out.reply) = 1
    /\ ReplyRD(op.out.reply) = 0

\* The question of the query as the response repeats it.
Question == Literal(op.params.name) \o U16(op.params.qt) \o <<0, 1>>

QuestionEchoed ==
    /\ ReplyQDCOUNT(op.out.reply) = 1
    /\ Len(op.out.reply) >= 12 + Len(Question)
    /\ SubSeq(op.out.reply, 13, 12 + Len(Question)) = Question

\* The name asked for is present in the zone z read from the zone files.
NamePresent(z, n) == \E k \in DOMAIN z.records : SameName(k, n)

\* C10: a query whose name has no held origin as a suffix is answered with
\* RCODE=5, AA=0, QDCOUNT=1 and the question, and no records; every query whose
\* name has a held origin as a suffix is answered with AA=1, and with RCODE=3
\* only when the name is absent from the zone of the longest such origin.
C10_RefusedIffNoHeldZone ==
    Responded =>
        LET r == op.out.reply
            n == op.params.name
        IN  IF HeldSuffixes(n) = {}
            THEN /\ ReplyRCODE(r) = 5
                 /\ ReplyAA(r) = 0
                 /\ QuestionEchoed
                 /\ Len(r) = 12 + Len(Question)
                 /\ ReplyANCOUNT(r) = 0
                 /\ ReplyNSCOUNT(r) = 0
                 /\ ReplyARCOUNT(r) = 0
            ELSE /\ ReplyAA(r) = 1
                 /\ ReplyRCODE(r) = 3 => ~NamePresent(zones[Longest(HeldSuffixes(n))], n)

\* The same with the root left out of the origins a name can fall under: this
\* is what the program does.
C10_RefusedIffNoHeldNonRootZone ==
    Responded =>
        LET r == op.out.reply
            n == op.params.name
            held == HeldSuffixes(n) \ {Root}
        IN  IF held = {}
            THEN /\ ReplyRCODE(r) = 5
                 /\ ReplyAA(r) = 0
                 /\ QuestionEchoed
                 /\ Len(r) = 12 + Len(Question)
                 /\ ReplyANCOUNT(r) = 0
                 /\ ReplyNSCOUNT(r) = 0
                 /\ ReplyARCOUNT(r) = 0
            ELSE /\ ReplyAA(r) = 1
                 /\ ReplyRCODE(r) \in {0, 3}
                 /\ ReplyRCODE(r) = 3 <=> ~NamePresent(zones[Longest(held)], n)
\* A response to a query whose name is in a held zone without the type asked
\* and without a CNAME, or is not in the zone at all.
NegativeResponse == Responded /\ op.out.lookup.kind \in {"NameExists", "NoName"}

\* The wire form of the synthetic SOA of the zone (origin, serial) written
\* after the question of a query for a name under that origin: the owner is a
\* pointer into the question or, when it is the name asked, to offset 12.
SoaTail(serial) ==
    U16(TypeSOA) \o <<0, 1>> \o U32(SoaTtl) \o U16(Len(Literal(mname)) + Len(Literal(rname)) + 20)
    \o Literal(mname) \o Literal(rname)
    \o U32(serial) \o U32(SoaRefresh) \o U32(SoaRetry) \o U32(SoaExpire) \o U32(SoaMinimum)

PtrTo(off) == <<192 + off \div 256, off % 256>>

\* A buffer holding, at offset 0, the name n1 behind k pointers, and right
\* after the first pointer (after n1 when k = 0) the name n2 written out:
\*   PtrTo(p1) n2 PtrTo(p1 + 2) ... PtrTo(p1 + 2(k-1)) n1.
ChainBuf(k, n1, n2) ==
    IF k = 0 THEN Literal(n1) \o Literal(n2)
    ELSE LET p1 == 2 + Len(Literal(n2))
         IN  PtrTo(p1) \o Literal(n2)
             \o Flatten([i \in 1..(k - 1) |-> PtrTo(p1 + 2 * i)]) \o Literal(n1)

\* The longest pointer chain built.
MaxHops == 22

\* Buffers that are no chain: a pointer to itself, a cycle of two pointers, a
\* label followed by a pointer back to it, and length octets with the top bits
\* 01 and 10 followed by an octet, before a name written out at offset 2.
RawBufs ==
    { <<192, 0>>, <<192, 2, 192, 0>>, <<1, 97, 192, 0>> }
    \cup {<<o, 2>> \o Literal(<<Lw, La>>) : o \in {64, 128}}
    \cup {<<o, 4, 0, 0>> \o Literal(<<Lw, La>>) : o \in {127, 191}}
    \cup {<<65, 0>>, <<63, 97>>}

DecodeInputs ==
    {[shape |-> "chain", k |-> k, n1 |-> n1, n2 |-> n2, buf |-> ChainBuf(k, n1, n2)] :
        <<k, n1, n2>> \in (0..MaxHops) \X {Root, <<La>>, <<LwUp, La>>} \X {Root, <<Lb>>}}
    \cup {[shape |-> "raw", k |-> 0, n1 |-> Root, n2 |-> Root, buf |-> b] : b \in RawBufs}

\* The names encoded: suffixes of each other, in both cases.
EncNames == {Root, <<La>>, <<Lb, La>>, <<LaUp>>, <<Lc, Lb, La>>, <<Ld, La>>}

\* The last n labels of a name of MaxTower one-byte labels.
MaxTower == 22

TowerName(n) == [i \in 1..n |-> <<96 + i + (MaxTower - n)>>]

\* The highest offset a pointer can hold: 0xc000 + offset fits 16 bits.
PtrLimit == 65535 - 49152

\* What is encoded: a first list of names, bytes written up to a position, and
\* a second list of names.
EncodeInputs ==
    {[first |-> <<>>, fill |-> f, rest |-> r] :
        <<f, r>> \in {0, 12} \X ((EncNames \X EncNames) \cup (EncNames \X EncNames \X EncNames))}
    \cup {[first |-> <<>>, fill |-> 0, rest |-> [i \in 1..n |-> TowerName(i)]] :
            n \in 1..MaxTower}
    \cup {[first |-> a, fill |-> f, rest |-> r] :
            <<a, f, r>> \in {<<>>, <<NameA>>}
                            \X {PtrLimit - 1, PtrLimit, PtrLimit + 1, PtrLimit + 2}
                            \X {<<NameBA>>, <<NameBA, <<Lc, Lb, La>>>>, <<NameBA, <<Ld, La>>>>}}

\* Bytes written between names: zeros up to the position fill.
FillTo(enc, fill) ==
    IF Len(enc.buf) >= fill THEN enc
    ELSE Put(enc, [i \in 1..(fill - Len(enc.buf)) |-> 0])

\* Names encoded one after another; offs are the offsets they are written at.
RECURSIVE EncodeAll(_, _, _)
EncodeAll(enc, names, offs) ==
    IF names = <<>> THEN [enc |-> enc, offs |-> offs]
    ELSE EncodeAll(NameEncode(enc, Head(names)), Tail(names), Append(offs, Len(enc.buf)))

EncodeInput(x) ==
    LET a == EncodeAll(EncNew, x.first, <<>>)
    IN  EncodeAll(FillTo(a.enc, x.fill), x.rest, a.offs)

\* <Name as ProtocolDecode>::decode on a buffer at a position.
DecodeName(x, pos) ==
    /\ op = Idle
    /\ pos <= Len(x.buf)
    /\ op' = [kind |-> "decode", input |-> x, pos |-> pos, out |-> NameDecode(x.buf, pos)]
    /\ UNCHANGED <<zones, conn, lock, tasks>>

\* <Name as ProtocolEncode>::encode on each name of the input in turn.
EncodeNames(x) ==
    /\ op = Idle
    /\ op' = [kind |-> "encode", input |-> x, names |-> x.first \o x.rest,
              out |-> EncodeInput(x)]
    /\ UNCHANGED <<zones, conn, lock, tasks>>

NextName ==
    \/ \E x \in DecodeInputs : \E pos \in {0, 2} : DecodeName(x, pos)
    \/ \E x \in EncodeInputs : EncodeNames(x)
    \/ Return

SpecName == Init /\ [][NextName]_vars
\* A name decoded at offset 0 of a buffer that holds it behind k pointers.
ChainDecoded == op.kind = "decode" /\ op.input.shape = "chain" /\ op.pos = 0

\* The buffers in which pointers lead back to where decoding has been.
CyclicBufs == {<<192, 0>>, <<192, 2, 192, 0>>, <<1, 97, 192, 0>>}

\* C12: name decoding ends on every input, pointers to themselves and cycles
\* included; a name behind at most 20 pointers decodes to that name, and one
\* behind more than 20 fails with NamePointerRecursionLimitReached.
C12_HopLimit ==
    op.kind = "decode" =>
        /\ op.out.status \in {"ok", "err", "panic"}
        /\ op.out.status = "err" => op.out.err = "NamePointerRecursionLimitReached"
        /\ ChainDecoded =>
               IF op.input.k <= 20
               THEN op.out.status = "ok" /\ op.out.name = op.input.n1
               ELSE op.out.status = "err"
        /\ (op.input.buf \in CyclicBufs /\ op.pos = 0) => op.out.status = "err"

\* C12 witness: a name behind exactly 20 pointers is decoded.
C12_Witness ==
    /\ ChainDecoded
    /\ op.input.k = 20
    /\ op.input.n1 = <<LwUp, La>>
    /\ op.out.status = "ok"
    /\ op.out.name = <<LwUp, La>>

\* C13: a length octet with the top two bits 01 or 10 (0x40 to 0xbf) is
\* rejected: a name that starts with one is not decoded.
C13_ReservedOctetsRejected ==
    (op.kind = "decode" /\ op.pos = 0 /\ op.input.buf # <<>>
        /\ op.input.buf[1] \in 64..191) => op.out.status = "err"

\* C14: after a name is decoded the cursor is right after the terminating zero
\* when no pointer was followed and right after the first pointer when one or
\* more were, and the name decoded from there is the second name of the buffer.
C14_CursorAfterName ==
    (ChainDecoded /\ op.out.status = "ok") =>
        /\ op.out.pos = IF op.input.k = 0 THEN Len(Literal(op.input.n1)) ELSE 2
        /\ NameDecode(op.input.buf, op.out.pos).status = "ok"
        /\ NameDecode(op.input.buf, op.out.pos).name = op.input.n2
        /\ NameDecode(op.input.buf, op.out.pos).pos = op.out.pos + Len(Literal(op.input.n2))

\* C14 witness: a name behind three pointers is decoded and the cursor is after
\* the first of them, where the second name starts.
C14_Witness ==
    /\ ChainDecoded
    /\ op.input.k = 3
    /\ op.input.n2 = <<Lb>>
    /\ op.out.status = "ok"
    /\ op.out.pos = 2
\* Names were encoded one after another and every encoding succeeded.
Encoded == op.kind = "encode" /\ op.out.enc.ok

\* The name s stands in the buffer at offset o: labels written out equal to its
\* labels modulo case, ended by a zero octet or by a pointer to a lower offset
\* where the rest of s starts with a label written out.
RECURSIVE WrittenAt(_, _, _)
WrittenAt(buf, o, s) ==
    IF o >= Len(buf) THEN FALSE
    ELSE IF buf[o + 1] >= 192
    THEN /\ s # <<>>
         /\ o + 2 <= Len(buf)
         /\ LET t == (buf[o + 1] - 192) * 256 + buf[o + 2]
            IN  t < o /\ buf[t + 1] \in 1..63 /\ WrittenAt(buf, t, s)
    ELSE IF s = <<>> THEN buf[o + 1] = 0
    ELSE /\ buf[o + 1] = Len(s[1])
         /\ o + 1 + Len(s[1]) <= Len(buf)
         /\ SameName(<<SubSeq(buf, o + 2, o + 1 + Len(s[1]))>>, <<s[1]>>)
         /\ WrittenAt(buf, o + 1 + Len(s[1]), Tail(s))

\* The pointers between offset o and the end of the name that stands there.
RECURSIVE Hops(_, _)
Hops(buf, o) ==
    IF buf[o + 1] = 0 THEN 0
    ELSE IF buf[o + 1] >= 192 THEN 1 + Hops(buf, (buf[o + 1] - 192) * 256 + buf[o + 2])
    ELSE Hops(buf, o + 1 + buf[o + 1])

\* The non-empty suffixes of a name.
Suffixes(n) == {SubSeq(n, i, Len(n)) : i \in 1..Len(n)}

\* The compression table has the suffix s at an offset where s stands, starting
\* with a label written out.
Recorded(s) ==
    \E k \in DOMAIN op.out.enc.names :
        /\ SameName(k, s)
        /\ op.out.enc.buf[op.out.enc.names[k] + 1] = Len(s[1])
        /\ WrittenAt(op.out.enc.buf, op.out.enc.names[k], s)

\* Every name stands at the offset it was written at, its pointers refer to
\* lower offsets where the same suffix was written out, and the table has every
\* suffix of every name.
WrittenAndRecorded ==
    \A i \in 1..Len(op.names) :
        /\ WrittenAt(op.out.enc.buf, op.out.offs[i], op.names[i])
        /\ \A s \in Suffixes(op.names[i]) : Recorded(s)

\* C15 as stated: when names are encoded into one buffer with one table and
\* encoding succeeds, decoding at the offset of each name yields the name modulo
\* case, every pointer refers to an offset where the same suffix was written
\* out earlier, and the table maps every suffix of every name to an offset.
C15_RoundTrip ==
    Encoded =>
        /\ WrittenAndRecorded
        /\ \A i \in 1..Len(op.names) :
               LET d == NameDecode(op.out.enc.buf, op.out.offs[i])
               IN  d.status = "ok" /\ SameName(d.name, op.names[i])

\* C15 amended: the same, with the decoding of a name that stands behind more
\* than 20 pointers failing with NamePointerRecursionLimitReached and every
\* other name decoded to itself modulo case.
C15_RoundTripWithinHopLimit ==
    Encoded =>
        /\ WrittenAndRecorded
        /\ \A i \in 1..Len(op.names) :
               LET d == NameDecode(op.out.enc.buf, op.out.offs[i])
               IN  IF Hops(op.out.enc.buf, op.out.offs[i]) <= 20
                   THEN d.status = "ok" /\ SameName(d.name, op.names[i])
                   ELSE d.status = "err"

\* C15 witness: after b.a, the name A is written as a pointer and c.b.a as a
\* label and a pointer, behind the 12 bytes of a header.
C15_Witness ==
    /\ Encoded
    /\ op.input.fill = 12
    /\ op.names = <<NameBA, <<LaUp>>, <<Lc, Lb, La>>>>
    /\ op.out.offs = <<12, 17, 19>>
    /\ SubSeq(op.out.enc.buf, 18, 23) = <<192, 14, 1, 99, 192, 12>>
\* C16: when a name is first written past offset 0x3fff, later names that share
\* a suffix with it are written in full and encoding still succeeds; pointers
\* go to offsets of at most 0x3fff only, and suffixes recorded at lower
\* offsets stay usable as pointer targets.
C16_EncodesPastPointerLimit ==
    op.kind = "encode" =>
        /\ op.out.enc.ok
        /\ \A i \in 1..Len(op.names) :
               WrittenAt(op.out.enc.buf, op.out.offs[i], op.names[i])

(***************************************************************************)
(* The TCP codec and the task that serves one TCP connection.  A frame is  *)
(* a 2-byte big-endian length followed by that many bytes.                 *)
(***************************************************************************)
\* u16::MAX, the largest length cast::u16 accepts.
U16Max == 65536 - 1

\* DnsCodec::tcp(): no length prefix has been read.
DnsCodec_tcp == None

\* A faulty decoder: a length read ahead of an incomplete body is not kept.
DnsCodec_decode_forgets_len(self_len, src) ==
    IF ~self_len.some /\ Len(src) < 2
    THEN [len |-> self_len, src |-> src, item |-> None]
    ELSE LET len == IF self_len.some THEN self_len.val ELSE BE16(src[1], src[2])
             rest == IF self_len.some THEN src ELSE SubSeq(src, 3, Len(src))
         IN  IF Len(rest) >= len
             THEN [len |-> None, src |-> SubSeq(rest, len + 1, Len(rest)),
                   item |-> Some(SubSeq(rest, 1, len))]
             ELSE [len |-> None, src |-> rest, item |-> None]

\* <DnsCodec as Decoder>::decode for DnsCodec::Tcp: the codec's len and the
\* buffer after the call, and the item returned.
DnsCodec_decode(self_len, src) ==
    IF ~self_len.some /\ Len(src) < 2
    THEN [len |-> self_len, src |-> src, item |-> None]
    ELSE LET len == IF self_len.some THEN self_len.val ELSE BE16(src[1], src[2])
             rest == IF self_len.some THEN src ELSE SubSeq(src, 3, Len(src))
         IN  IF Len(rest) >= len
             THEN [len |-> None, src |-> SubSeq(rest, len + 1, Len(rest)),
                   item |-> Some(SubSeq(rest, 1, len))]
             ELSE [len |-> Some(len), src |-> rest, item |-> None]

\* <DnsCodec as Encoder>::encode for DnsCodec::Tcp: dst after the call.
DnsCodec_encode(item, dst) ==
    IF Len(item) <= U16Max
    THEN dst \o U16(Len(item)) \o item
    ELSE dst \o encode_err(BE16(item[1], item[2]), 2)

\* The wire form of a sequence of frame bodies.
FramesWire(bodies) ==
    Flatten([i \in 1..Len(bodies) |-> U16(Len(bodies[i])) \o bodies[i]])

\* Request frames a peer sends: a query answered from the zone, a query for a
\* name in no zone, a response (QR set), one byte, and the empty frame.
TcpFrames ==
    { Build(Params(QueryId, 1, 0, 1, "lit", <<Lw, La>>, <<>>, TypeA, 1, TRUE, 0)),
      Build(Params(<<1, 2>>, 0, 0, 1, "lit", <<Lx>>, <<>>, TypeA, 1, TRUE, 0)),
      Build(Params(<<3, 4>>, 128, 0, 1, "lit", Root, <<>>, TypeA, 1, TRUE, 0)),
      <<7>>,
      <<>> }

\* A connection carries up to MaxFrames request frames.
MaxFrames == 2

TcpStreams == UNION {[1..n -> TcpFrames] : n \in 1..MaxFrames}

\* tcp_server, the closure run for an accepted connection: the framed
\* transport is created; rx is what the peer sends and has not yet been read.
Accept(frames) ==
    /\ ~conn.open
    /\ conn' = [open |-> TRUE, alive |-> TRUE, frames |-> frames,
                rx |-> FramesWire(frames), src |-> <<>>, len |-> DnsCodec_tcp,
                readable |-> FALSE, reqs |-> <<>>, resps |-> <<>>, dst |-> <<>>]
    /\ UNCHANGED <<zones, op, lock, tasks>>

\* The transport reads the next n bytes from the socket into the buffer; it
\* reads once the decoder has returned None on what was buffered.
Arrive(n) ==
    /\ conn.open /\ conn.alive /\ ~conn.readable
    /\ n \in 1..Len(conn.rx)
    /\ conn' = [conn EXCEPT !.src = @ \o SubSeq(conn.rx, 1, n),
                            !.rx = SubSeq(@, n + 1, Len(@)),
                            !.readable = TRUE]
    /\ UNCHANGED <<zones, op, lock, tasks>>

\* What one step of the task does with the decoder's result d and the
\* outcome r of process_message on the item: no item leaves the task waiting
\* for bytes, a panic ends it, a reply is encoded into dst.
Served(d, r) ==
    IF ~d.item.some
    THEN conn' = [conn EXCEPT !.len = d.len, !.src = d.src, !.readable = FALSE]
    ELSE IF r.status = "panic"
    THEN conn' = [conn EXCEPT !.len = d.len, !.src = d.src,
                              !.reqs = Append(@, d.item.val),
                              !.alive = FALSE]
    ELSE conn' = [conn EXCEPT !.len = d.len, !.src = d.src,
                              !.reqs = Append(@, d.item.val),
                              !.resps = Append(@, r.reply),
                              !.dst = DnsCodec_encode(r.reply, @)]

\* One step of sink.send_all(stream.map(..)): the decoder is called on the
\* buffer; an item it returns goes through process_message and the reply is
\* encoded into dst.  A panic in process_message ends the task.
Poll ==
    /\ conn.open /\ conn.alive /\ conn.readable
    /\ LET d == DnsCodec_decode(conn.len, conn.src)
       IN  Served(d, process_message(zones, d.item.val))
    /\ UNCHANGED <<zones, op, lock, tasks>>

\* The connection ends: the peer has sent everything, or the task is dead.
Close ==
    /\ conn.open
    /\ ~conn.alive \/ (conn.rx = <<>> /\ ~conn.readable)
    /\ conn' = NoConn
    /\ UNCHANGED <<zones, op, lock, tasks>>

NextTcp ==
    \/ \E f \in WireFiles : LoadZone(f)
    \/ Return
    \/ \E frames \in TcpStreams : Accept(frames)
    \/ \E n \in 1..(MaxFrames * (MaxMsgLen + 2)) : Arrive(n)
    \/ Poll
    \/ Close

SpecTcp == Init /\ [][NextTcp]_vars

\* The bytes of the stream that have arrived after the delivered frames.
ArrivedAhead ==
    (IF conn.len.some THEN U16(conn.len.val) ELSE <<>>) \o conn.src

\* C17: over a stream of length-prefixed frames split into chunks in any way,
\* the decoder delivers the frame bodies in order, each of the length its
\* prefix gives; the delivered frames, the prefix held in len, the buffer and
\* the bytes still to come make up the stream (no byte is dropped, duplicated
\* or read again as a prefix); once decode has returned, len is Some(L) exactly
\* when the prefix of the next frame has arrived and fewer than L bytes of its
\* body are buffered, and None otherwise; every frame is delivered once the
\* stream has arrived.
C17_FramesDelivered ==
    conn.open =>
        LET k == Len(conn.reqs)
        IN  /\ k <= Len(conn.frames)
            /\ \A i \in 1..k : conn.reqs[i] = conn.frames[i]
            /\ FramesWire(conn.reqs) \o ArrivedAhead \o conn.rx = FramesWire(conn.frames)
            /\ conn.len.some =>
                   /\ k < Len(conn.frames)
                   /\ conn.len.val = Len(conn.frames[k + 1])
            /\ (conn.alive /\ ~conn.readable) =>
                   /\ conn.len.some <=> Len(ArrivedAhead) >= 2
                   /\ conn.len.some => Len(conn.src) < conn.len.val
                   /\ conn.rx = <<>> => conn.reqs = conn.frames

\* A second frame whose prefix and part of whose body have arrived, after the
\* first frame was delivered.
C17_Witness ==
    /\ conn.open /\ ~conn.readable
    /\ Len(conn.reqs) = 1
    /\ conn.len.some /\ conn.src # <<>> /\ conn.rx # <<>>

(***************************************************************************)
(* The sink half of a connection on its own: items of any length, standing *)
(* for replies, are handed to the encoder one after another.               *)
(***************************************************************************)
\* An item of n bytes; its first two bytes are b + 1 and b + 2.
Item(n, b) == [i \in 1..n |-> (b + i) % 256]

SinkLens == {0, 1, 2, 12, U16Max, U16Max + 1}

SinkItems == {Item(n, b) : <<n, b>> \in SinkLens \X {1, 2}}

\* A connection is handed up to MaxItems items.
MaxItems == 2

\* Sink::start_send on the framed transport: the item is encoded into dst.
Send(item) ==
    /\ conn.open /\ conn.alive
    /\ Len(conn.resps) < MaxItems
    /\ conn' = [conn EXCEPT !.resps = Append(@, item),
                            !.dst = DnsCodec_encode(item, @)]
    /\ UNCHANGED <<zones, op, lock, tasks>>

NextSink ==
    \/ \E frames \in {<<>>} : Accept(frames)
    \/ \E item \in SinkItems : Send(item)
    \/ Close

SpecSink == Init /\ [][NextSink]_vars

\* A byte sequence read as length-prefixed frames: ok unless a prefix or a
\* body is cut short, and the bodies read.
RECURSIVE ParseFrames(_)
ParseFrames(buf) ==
    IF buf = <<>> THEN [ok |-> TRUE, bodies |-> <<>>]
    ELSE IF Len(buf) < 2 THEN [ok |-> FALSE, bodies |-> <<>>]
    ELSE LET len == BE16(buf[1], buf[2])
         IN  IF Len(buf) - 2 < len THEN [ok |-> FALSE, bodies |-> <<>>]
             ELSE LET rest == ParseFrames(SubSeq(buf, len + 3, Len(buf)))
                  IN  [ok |-> rest.ok,
                       bodies |-> <<SubSeq(buf, 3, len + 2)>> \o rest.bodies]

\* The body the frame of an item carries: the item, or for an item longer
\* than 65535 bytes the SERVFAIL reply with the item's first two bytes as ID.
FrameBody(item) ==
    IF Len(item) <= U16Max THEN item ELSE encode_err(BE16(item[1], item[2]), 2)

\* For an oversize item the bytes written are a reply with RCODE 2 and the
\* item's first two bytes as ID.
OversizeWritesServfail ==
    (conn.open /\ conn.resps # <<>> /\ Len(conn.resps[Len(conn.resps)]) > U16Max) =>
        LET item == conn.resps[Len(conn.resps)]
            reply == SubSeq(conn.dst, Len(conn.dst) - 11, Len(conn.dst))
        IN  /\ Len(conn.dst) >= 12
            /\ ReplyId(reply) = <<item[1], item[2]>>
            /\ ReplyQR(reply) = 1
            /\ ReplyRCODE(reply) = 2

\* C18: what the encoder has written is a sequence of frames, one per item in
\* order, each a 2-byte big-endian length followed by that many bytes; the
\* body is the item, or for an item longer than 65535 bytes a SERVFAIL reply
\* (RCODE 2) whose ID is the first two bytes of the item.
C18_OutputIsFrames ==
    conn.open =>
        LET p == ParseFrames(conn.dst)
        IN  /\ p.ok
            /\ p.bodies = [i \in 1..Len(conn.resps) |-> FrameBody(conn.resps[i])]

\* A reply to a request: a request that decodes as a query is answered with
\* its ID and its question, any other with a reply without a question.
Answers(reply, req) ==
    IF QueryMessage_decode(req).status = "ok"
    THEN /\ ReplyId(reply) = SubSeq(req, 1, 2)
         /\ ReplyQDCOUNT(reply) = 1
         /\ SubSeq(reply, 13, Len(req)) = SubSeq(req, 13, Len(req))
    ELSE ReplyQDCOUNT(reply) = 0

\* The responses written on a connection answer its requests in order, and only the request that ended the task is
\* left without one.
ResponsesInRequestOrder ==
    conn.open =>
        /\ conn.dst = FramesWire(conn.resps)
        /\ Len(conn.resps) <= Len(conn.reqs)
        /\ \A i \in 1..Len(conn.resps) : Answers(conn.resps[i], conn.reqs[i])
        /\ conn.alive => Len(conn.resps) = Len(conn.reqs)
        /\ ~conn.alive => Len(conn.resps) = Len(conn.reqs) - 1

\* C19: on one TCP connection exactly one response is written per request
\* frame received, and the responses are written in the order of their
\* requests.
C19_OneResponsePerRequest ==
    conn.open =>
        /\ Len(conn.resps) = Len(conn.reqs)
        /\ \A i \in 1..Len(conn.resps) : Answers(conn.resps[i], conn.reqs[i])
        /\ conn.dst = FramesWire(conn.resps)

(***************************************************************************)
(* The authority behind its reader/writer lock: query handlers (the UDP    *)
(* server and a TCP connection task) run process_message step by step      *)
(* under a read lock while a loader loads zone files under the write lock. *)
(***************************************************************************)
\* A faulty lock: the write lock is granted while readers hold the lock.
write_allowed_among_readers(l) == ~l.writer

\* RwLock::write returns once no writer and no reader holds the lock.
write_allowed(l) == ~l.writer /\ l.readers = {}

\* RwLock::read returns once no writer holds the lock.
read_allowed(l) == ~l.writer

\* process_message, the first lookup: the zone of the name and the lookup in it.
first_lookup(zs, name, rt) ==
    LET z == find_zone(zs, name)
    IN  IF z.some THEN lookup(z.val, name, rt) ELSE NoZone

\* process_message, the second lookup: one CNAME hop into a held zone.
cname_lookup(zs, l, rt) ==
    IF l.kind = "CNAMELookup"
    THEN IF l.cname.rdata.type = TypeCNAME
         THEN LET target == l.cname.rdata.name
                  tz == find_zone(zs, target)
              IN  IF tz.some
                  THEN CNAMEResult(l.cname,
                                   RecordsOrEmpty(lookup(tz.val, target, rt)),
                                   RecordsOrEmpty(lookup(tz.val, tz.val.origin, TypeNS)))
                  ELSE l
         ELSE l
    ELSE l

\* process_message, the end: the response is encoded.
respond_encode(query, l) ==
    LET e == ResponseEncode(query, l)
    IN  IF e.ok THEN e.buf ELSE encode_err(query.id, 2)

Handlers == {"udp", "tcp"}

LockFiles ==
    { ZoneFile(TRUE, NameA, 1, TRUE, BodyA1),
      ZoneFile(TRUE, NameA, 2, TRUE, BodyA2),
      ZoneFile(TRUE, NameBA, 1, TRUE, BodyB1),
      ZoneFile(TRUE, NameBA, 2, TRUE, BodyB2),
      ZoneFile(TRUE, NameBA, 2, FALSE, <<>>) }

\* Queries: a CNAME into another zone, an address, a name below a zone cut.
LockParams ==
    {Params(QueryId, 0, 0, 1, "lit", n, <<>>, TypeA, 1, TRUE, 0) :
        n \in {<<Lc, La>>, <<Lw, La>>, <<Lw, Lb, La>>}}

HandlerIdle == [pc |-> "idle"]

\* main: the servers are started over the shared authority.
Start ==
    /\ ~tasks.running
    /\ op = Idle /\ ~conn.open
    /\ tasks' = [running |-> TRUE, h |-> [x \in Handlers |-> HandlerIdle],
                 loader |-> "idle"]
    /\ UNCHANGED <<zones, op, conn, lock>>

\* A handler receives a message: authority.read() is acquired and the query
\* is decoded; seen is the zone map at that moment.
HandlerRead(x, p) ==
    /\ tasks.running
    /\ tasks.h[x].pc \in {"idle", "done"}
    /\ read_allowed(lock)
    /\ QueryMessage_decode(Build(p)).status = "ok"
    /\ lock' = [lock EXCEPT !.readers = @ \cup {x}]
    /\ tasks' = [tasks EXCEPT !.h[x] =
                    [pc |-> "first", msg |-> Build(p), seen |-> zones,
                     query |-> QueryMessage_decode(Build(p)).query]]
    /\ UNCHANGED <<zones, op, conn>>

\* The first lookup, on the zone map as it is now.
HandlerFirst(x) ==
    /\ tasks.running
    /\ tasks.h[x].pc = "first"
    /\ tasks' = [tasks EXCEPT !.h[x] =
                    [pc |-> "second", msg |-> @.msg, seen |-> @.seen, query |-> @.query,
                     lookup |-> first_lookup(zones, @.query.name, @.query.record_type)]]
    /\ UNCHANGED <<zones, op, conn, lock>>

\* The second lookup, on the zone map as it is now.
HandlerSecond(x) ==
    /\ tasks.running
    /\ tasks.h[x].pc = "second"
    /\ tasks' = [tasks EXCEPT !.h[x] =
                    [pc |-> "encode", msg |-> @.msg, seen |-> @.seen, query |-> @.query,
                     lookup |-> cname_lookup(zones, @.lookup, @.query.record_type)]]
    /\ UNCHANGED <<zones, op, conn, lock>>

\* The response is encoded and the read guard is dropped.
HandlerReply(x) ==
    /\ tasks.running
    /\ tasks.h[x].pc = "encode"
    /\ tasks' = [tasks EXCEPT !.h[x] =
                    [pc |-> "done", msg |-> @.msg, seen |-> @.seen, query |-> @.query,
                     lookup |-> @.lookup, out |-> respond_encode(@.query, @.lookup)]]
    /\ lock' = [lock EXCEPT !.readers = @ \ {x}]
    /\ UNCHANGED <<zones, op, conn>>

\* The loader acquires authority.write().
LoaderLock ==
    /\ tasks.running
    /\ tasks.loader = "idle"
    /\ write_allowed(lock)
    /\ lock' = [lock EXCEPT !.writer = TRUE]
    /\ tasks' = [tasks EXCEPT !.loader = "locked"]
    /\ UNCHANGED <<zones, op, conn>>

\* load_zonefile on one path, under the write guard.
LoaderLoad(f) ==
    /\ tasks.running
    /\ tasks.loader = "locked"
    /\ zones' = load_zone(zones, f).zones
    /\ UNCHANGED <<op, conn, lock, tasks>>

\* The write guard is dropped.
LoaderUnlock ==
    /\ tasks.running
    /\ tasks.loader = "locked"
    /\ lock' = [lock EXCEPT !.writer = FALSE]
    /\ tasks' = [tasks EXCEPT !.loader = "idle"]
    /\ UNCHANGED <<zones, op, conn>>

NextLock ==
    \/ Start
    \/ \E x \in Handlers : \E p \in LockParams : HandlerRead(x, p)
    \/ \E x \in Handlers : HandlerFirst(x)
    \/ \E x \in Handlers : HandlerSecond(x)
    \/ \E x \in Handlers : HandlerReply(x)
    \/ LoaderLock
    \/ \E f \in LockFiles : LoaderLoad(f)
    \/ LoaderUnlock

SpecLock == Init /\ [][NextLock]_vars

\* A handler between taking and dropping its read guard.
InFlight(x) == tasks.h[x].pc \in {"first", "second", "encode"}

\* C20: under any interleaving of the handlers and the loader, a handler holds
\* the read lock from before its first lookup until its response is encoded,
\* the loader changes the zone map only while it holds the write lock and no
\* handler is in flight, the zone map a handler works on stays the one it saw
\* when it took the lock, and its response is the one process_message gives
\* on that one zone map (both lookups of a CNAME answer see the same zones).
C20_HandlersSeeWholeLoads ==
    tasks.running =>
        /\ \A x \in Handlers :
              /\ InFlight(x) =>
                    /\ x \in lock.readers
                    /\ ~lock.writer
                    /\ tasks.loader = "idle"
                    /\ zones = tasks.h[x].seen
              /\ ~InFlight(x) => x \notin lock.readers
              /\ tasks.h[x].pc = "done" =>
                    tasks.h[x].out = process_message(tasks.h[x].seen, tasks.h[x].msg).reply
        /\ tasks.loader = "locked" <=> lock.writer
        /\ lock.writer => lock.readers = {}

\* Zone loads change the zone map only under the write lock.
LoadsUnderWriteLock == [][zones' # zones => lock.writer /\ lock'.writer]_vars

\* One handler has answered a CNAME that leads into another held zone; the
\* other handler took the lock after a later load changed the zone map and is
\* between its two lookups.
C20_Witness ==
    /\ tasks.running
    /\ tasks.h["udp"].pc = "done"
    /\ tasks.h["udp"].lookup.kind = "CNAME"
    /\ MapHas(tasks.h["udp"].seen, NameBA)
    /\ tasks.h["tcp"].pc = "second"
    /\ tasks.h["tcp"].seen # tasks.h["udp"].seen

(***************************************************************************)
(* Responses read back: the resource records after the question.           *)
(***************************************************************************)
\* The resource record at pos: owner, type, RDLENGTH, the position of the
\* rdata and the position after it as RDLENGTH gives it.
ParseRR(buf, pos) ==
    LET n == NameDecode(buf, pos)
    IN  IF n.status # "ok" THEN [ok |-> FALSE]
        ELSE IF remaining(buf, n.pos) < 10 THEN [ok |-> FALSE]
        ELSE LET rdlen == BE16(buf[n.pos + 9], buf[n.pos + 10])
             IN  [ok |-> remaining(buf, n.pos + 10) >= rdlen \/ rdlen = 0,
                  name |-> n.name,
                  type |-> BE16(buf[n.pos + 1], buf[n.pos + 2]),
                  class |-> BE16(buf[n.pos + 3], buf[n.pos + 4]),
                  rdlen |-> rdlen,
                  rstart |-> n.pos + 10,
                  next |-> n.pos + 10 + rdlen]

\* The resource records from pos to the end of the buffer.
RECURSIVE ParseRRs(_, _)
ParseRRs(buf, pos) ==
    IF pos >= Len(buf) THEN [ok |-> pos = Len(buf), rrs |-> <<>>]
    ELSE LET r == ParseRR(buf, pos)
         IN  IF ~r.ok THEN [ok |-> FALSE, rrs |-> <<>>]
             ELSE LET rest == ParseRRs(buf, r.next)
                  IN  [ok |-> rest.ok, rrs |-> <<r>> \o rest.rrs]

\* The records of the response of the call in progress.
ReplyRRs == ParseRRs(op.out.reply, 12 + Len(Question))

\* A call of process_message on a message that decodes as a query.
QueryDecoded == op.kind = "query" /\ op.out.decode.status = "ok"

\* C21: process_message returns a response for every query over every set of
\* held zones, CNAME chains and cycles included; when the lookup of the name
\* finds a CNAME it is followed at most once, and the response holds exactly
\* one CNAME record, the one at the name asked for.
C21_OneCnameHop ==
    QueryDecoded =>
        /\ op.out.status = "reply"
        /\ Responded
        /\ op.out.lookup.kind \in {"CNAME", "CNAMELookup"} =>
              /\ ReplyRRs.ok
              /\ ReplyRRs.rrs # <<>>
              /\ ReplyRRs.rrs[1].type = TypeCNAME
              /\ SameName(ReplyRRs.rrs[1].name, op.params.name)
              /\ \A i \in 2..Len(ReplyRRs.rrs) : ReplyRRs.rrs[i].type # TypeCNAME

\* A query for a name on a CNAME cycle (w.a CNAME c.a, c.a CNAME w.a): the
\* target of the CNAME followed holds a CNAME again.
C21_Witness ==
    /\ Responded
    /\ op.out.lookup.kind = "CNAME"
    /\ LET target == op.out.lookup.cname.rdata.name
           tz == find_zone(zones, target)
       IN  /\ tz.some
           /\ lookup(tz.val, target, op.params.qt).kind = "CNAMELookup"
           /\ SameName(lookup(tz.val, target, op.params.qt).cname.rdata.name,
                       op.params.name)

\* The record rr read from buf is the stored record r.
RRIs(buf, rr, r) ==
    /\ SameName(rr.name, r.name)
    /\ rr.type = r.rdata.type
    /\ rr.class = 1
    /\ IF r.rdata.type = TypeA
       THEN SubSeq(buf, rr.rstart + 1, rr.next) = r.rdata.addr
       ELSE /\ NameDecode(buf, rr.rstart).status = "ok"
            /\ SameName(NameDecode(buf, rr.rstart).name, r.rdata.name)

\* The records read from buf are the stored records rs, in order.
RRsAre(buf, rrs, rs) ==
    /\ Len(rrs) = Len(rs)
    /\ \A i \in 1..Len(rs) : RRIs(buf, rrs[i], rs[i])

\* The records of type t at the name n in the zone z, in stored order.
RecordsAt(z, n, t) ==
    IF \E k \in DOMAIN z.records : SameName(k, n) /\ t \in DOMAIN z.records[k]
    THEN z.records[CHOOSE k \in DOMAIN z.records : SameName(k, n)][t]
    ELSE <<>>

\* A response to a query whose name holds a CNAME and no record of the type
\* asked for.
CnameAnswered ==
    /\ Responded
    /\ first_lookup(zones, op.params.name, op.params.qt).kind = "CNAMELookup"

\* What the response to a CNAME must be when the held origins among which the
\* zone of the target is chosen are held: the CNAME, the target's records of
\* the type asked and the NS records of the target's zone, or the CNAME alone.
CnameResponseOver(held) ==
    LET r == op.out.reply
        c == first_lookup(zones, op.params.name, op.params.qt).cname
        Z == zones[Longest(held)]
        found == RecordsAt(Z, c.rdata.name, op.params.qt)
        auths == RecordsAt(Z, Z.origin, TypeNS)
    IN  /\ ReplyRCODE(r) = 0
        /\ ReplyAA(r) = 1
        /\ ReplyARCOUNT(r) = 0
        /\ ReplyRRs.ok
        /\ IF held # {}
           THEN /\ ReplyANCOUNT(r) = 1 + Len(found)
                /\ ReplyNSCOUNT(r) = Len(auths)
                /\ RRsAre(r, ReplyRRs.rrs, <<c>> \o found \o auths)
           ELSE /\ ReplyANCOUNT(r) = 1
                /\ ReplyNSCOUNT(r) = 0
                /\ RRsAre(r, ReplyRRs.rrs, <<c>>)

\* C22: when the lookup of the query name yields CNAMELookup(c) and a held zone
\* Z covers c's target, the response has RCODE=0 and AA=1, its answer section
\* is c followed by Z's records of the queried type at the target, and its
\* authority section is the NS records at Z's origin; when no held zone covers
\* the target, the answer is c alone and the authority section is empty.
C22_CnameResponse ==
    CnameAnswered =>
        CnameResponseOver(
            HeldSuffixes(first_lookup(zones, op.params.name, op.params.qt).cname.rdata.name))

\* The same with the root left out of the origins that can cover the target:
\* this is what the program does.
CnameResponseNonRoot ==
    CnameAnswered =>
        CnameResponseOver(
            HeldSuffixes(first_lookup(zones, op.params.name, op.params.qt).cname.rdata.name)
                \ {Root})

(***************************************************************************)
(* Binary zone files (MessagePack).  A file is the array header of five    *)
(* elements, the origin, the serial, the records, the pool of labels and   *)
(* the distance from the end of the file back to the pool.  Names are      *)
(* written as arrays of indices into the pool.                             *)
(***************************************************************************)
\* The integers of the model are below 2^31: the serials, TTLs, lengths and offsets
\* of its files are, and a file holding a larger integer is not read.
I32Max == 65536 * 32767 + 65535

U64(v) == <<0, 0, 0, 0>> \o U32(v)

Fits32(buf, pos) == buf[pos + 1] < 128

Fits64(buf, pos) == SubSeq(buf, pos + 1, pos + 4) = <<0, 0, 0, 0>> /\ Fits32(buf, pos + 4)

BE32(buf, pos) ==
    ((buf[pos + 1] * 256 + buf[pos + 2]) * 256 + buf[pos + 3]) * 256 + buf[pos + 4]

\* rmp::encode::write_array_len.
MpArrayLen(n) ==
    IF n < 16 THEN <<144 + n>>
    ELSE IF n < 65536 THEN <<220>> \o U16(n)
    ELSE <<221>> \o U32(n)

\* rmp::encode::write_uint: the shortest unsigned encoding.
MpUint(v) ==
    IF v < 128 THEN <<v>>
    ELSE IF v < 256 THEN <<204, v>>
    ELSE IF v < 65536 THEN <<205>> \o U16(v)
    ELSE <<206>> \o U32(v)

\* rmp::encode::write_str_len.
MpStrLen(n) ==
    IF n < 32 THEN <<160 + n>>
    ELSE IF n < 256 THEN <<217, n>>
    ELSE IF n < 65536 THEN <<218>> \o U16(n)
    ELSE <<219>> \o U32(n)

\* rmp::encode::write_bin_len.
MpBinLen(n) ==
    IF n < 256 THEN <<196, n>>
    ELSE IF n < 65536 THEN <<197>> \o U16(n)
    ELSE <<198>> \o U32(n)

\* rmp::encode::write_u64.
MpU64(v) == <<207>> \o U64(v)

\* The outcome of a read: the value and the position after it, or an error.
RdOk(v, pos) == [ok |-> TRUE, val |-> v, pos |-> pos]

RdErr == [ok |-> FALSE]

\* rmp::decode::read_array_len.
RdArrayLen(buf, pos) ==
    IF remaining(buf, pos) < 1 THEN RdErr
    ELSE LET m == buf[pos + 1]
         IN  IF m >= 144 /\ m < 160 THEN RdOk(m - 144, pos + 1)
             ELSE IF m = 220 /\ remaining(buf, pos + 1) >= 2
             THEN RdOk(BE16(buf[pos + 2], buf[pos + 3]), pos + 3)
             ELSE IF m = 221 /\ remaining(buf, pos + 1) >= 4 /\ Fits32(buf, pos + 1)
             THEN RdOk(BE32(buf, pos + 1), pos + 5)
             ELSE RdErr

\* rmp::decode::read_int into an unsigned type with the largest value max
\* (unsigned encodings only: the writer produces no other).
RdInt(buf, pos, max) ==
    IF remaining(buf, pos) < 1 THEN RdErr
    ELSE LET m == buf[pos + 1]
             r == IF m < 128 THEN RdOk(m, pos + 1)
                  ELSE IF m = 204 /\ remaining(buf, pos + 1) >= 1
                  THEN RdOk(buf[pos + 2], pos + 2)
                  ELSE IF m = 205 /\ remaining(buf, pos + 1) >= 2
                  THEN RdOk(BE16(buf[pos + 2], buf[pos + 3]), pos + 3)
                  ELSE IF m = 206 /\ remaining(buf, pos + 1) >= 4 /\ Fits32(buf, pos + 1)
                  THEN RdOk(BE32(buf, pos + 1), pos + 5)
                  ELSE IF m = 207 /\ remaining(buf, pos + 1) >= 8 /\ Fits64(buf, pos + 1)
                  THEN RdOk(BE32(buf, pos + 5), pos + 9)
                  ELSE RdErr
         IN  IF r.ok /\ r.val > max THEN RdErr ELSE r

\* rmp::decode::read_str_len.
RdStrLen(buf, pos) ==
    IF remaining(buf, pos) < 1 THEN RdErr
    ELSE LET m == buf[pos + 1]
         IN  IF m >= 160 /\ m < 192 THEN RdOk(m - 160, pos + 1)
             ELSE IF m = 217 /\ remaining(buf, pos + 1) >= 1 THEN RdOk(buf[pos + 2], pos + 2)
             ELSE IF m = 218 /\ remaining(buf, pos + 1) >= 2
             THEN RdOk(BE16(buf[pos + 2], buf[pos + 3]), pos + 3)
             ELSE IF m = 219 /\ remaining(buf, pos + 1) >= 4 /\ Fits32(buf, pos + 1)
             THEN RdOk(BE32(buf, pos + 1), pos + 5)
             ELSE RdErr

\* rmp::decode::read_bin_len.
RdBinLen(buf, pos) ==
    IF remaining(buf, pos) < 1 THEN RdErr
    ELSE LET m == buf[pos + 1]
         IN  IF m = 196 /\ remaining(buf, pos + 1) >= 1 THEN RdOk(buf[pos + 2], pos + 2)
             ELSE IF m = 197 /\ remaining(buf, pos + 1) >= 2
             THEN RdOk(BE16(buf[pos + 2], buf[pos + 3]), pos + 3)
             ELSE IF m = 198 /\ remaining(buf, pos + 1) >= 4 /\ Fits32(buf, pos + 1)
             THEN RdOk(BE32(buf, pos + 1), pos + 5)
             ELSE RdErr

\* rmp::decode::read_u64: the marker must be that of a u64.
RdU64(buf, pos) ==
    IF remaining(buf, pos) >= 9 /\ buf[pos + 1] = 207 /\ Fits64(buf, pos + 1)
    THEN RdOk(BE32(buf, pos + 5), pos + 9)
    ELSE RdErr

\* read_exact!: len bytes.
RdExact(buf, pos, len) ==
    IF remaining(buf, pos) >= len THEN RdOk(SubSeq(buf, pos + 1, pos + len), pos + len)
    ELSE RdErr

\* A writer: the bytes written so far and the pool of labels.
MpW(bytes, labels) == [bytes |-> bytes, labels |-> labels]

MpPut(w, bytes) == [w EXCEPT !.bytes = @ \o bytes]

\* labels.iter().position(|x| x == label): the index of the label in the pool
\* (bytes compared as they are), or the length of the pool when it is absent.
PoolPosition(labels, label) ==
    IF \E i \in 1..Len(labels) : labels[i] = label
    THEN (CHOOSE i \in 1..Len(labels) :
              labels[i] = label /\ \A j \in 1..(i - 1) : labels[j] # label) - 1
    ELSE Len(labels)

\* <Name as Msgpack>::to_msgpack, from the label at index i on.
RECURSIVE NameLabelsToMsgpack(_, _, _)
NameLabelsToMsgpack(w, name, i) ==
    IF i > Len(name) THEN w
    ELSE LET n == PoolPosition(w.labels, name[i])
             pool == IF n = Len(w.labels) THEN Append(w.labels, name[i]) ELSE w.labels
         IN  NameLabelsToMsgpack(MpW(w.bytes \o MpUint(n), pool), name, i + 1)

NameToMsgpack(w, name) == NameLabelsToMsgpack(MpPut(w, MpArrayLen(Len(name))), name, 1)

\* <Name as Msgpack>::from_msgpack, the loop over the label indices.
RECURSIVE NameLabelsFromMsgpack(_, _, _, _, _)
NameLabelsFromMsgpack(buf, pos, labels, left, name) ==
    IF left = 0 THEN RdOk(name, pos)
    ELSE LET idx == RdInt(buf, pos, I32Max)
         IN  IF ~idx.ok THEN RdErr
             ELSE IF idx.val >= Len(labels) THEN RdErr
             ELSE NameLabelsFromMsgpack(buf, idx.pos, labels, left - 1,
                                        Append(name, labels[idx.val + 1]))

NameFromMsgpack(buf, pos, labels) ==
    LET n == RdArrayLen(buf, pos)
    IN  IF ~n.ok THEN RdErr
        ELSE NameLabelsFromMsgpack(buf, n.pos, labels, n.val, <<>>)

\* <RData as Msgpack>::to_msgpack.
RDataToMsgpack(w, rdata) ==
    LET t == MpPut(w, MpUint(rdata.type))
    IN  CASE rdata.type \in {TypeA, TypeAAAA, TypePTR} ->
                MpPut(t, MpBinLen(Len(rdata.addr)) \o rdata.addr)
          [] rdata.type \in {TypeCNAME, TypeNS} -> NameToMsgpack(t, rdata.name)
          [] rdata.type = TypeMX ->
                NameToMsgpack(MpPut(t, MpArrayLen(2) \o MpUint(rdata.preference)), rdata.name)
          [] rdata.type = TypeSRV ->
                NameToMsgpack(MpPut(t, MpArrayLen(4) \o MpUint(rdata.priority)
                                       \o MpUint(rdata.weight) \o MpUint(rdata.port)),
                              rdata.name)
          [] rdata.type = TypeTXT -> MpPut(t, MpStrLen(Len(rdata.text)) \o rdata.text)

\* The address of an A, AAAA or PTR record: a bin of the length(s) allowed.
RdAddr(buf, pos, lens) ==
    LET n == RdBinLen(buf, pos)
    IN  IF ~n.ok THEN RdErr
        ELSE IF n.val \notin lens THEN RdErr
        ELSE RdExact(buf, n.pos, n.val)

\* <RData as Msgpack>::from_msgpack.
RDataFromMsgpack(buf, pos, labels) ==
    LET t == RdInt(buf, pos, I32Max)
    IN  IF ~t.ok THEN RdErr
        ELSE CASE t.val = TypeA ->
                    LET a == RdAddr(buf, t.pos, {4})
                    IN  IF a.ok THEN RdOk(RDataA(a.val), a.pos) ELSE RdErr
               [] t.val = TypeAAAA ->
                    LET a == RdAddr(buf, t.pos, {16})
                    IN  IF a.ok THEN RdOk(RDataAAAA(a.val), a.pos) ELSE RdErr
               [] t.val = TypePTR ->
                    LET a == RdAddr(buf, t.pos, {4, 16})
                    IN  IF a.ok THEN RdOk(RDataPTR(a.val), a.pos) ELSE RdErr
               [] t.val \in {TypeCNAME, TypeNS} ->
                    LET n == NameFromMsgpack(buf, t.pos, labels)
                    IN  IF ~n.ok THEN RdErr
                        ELSE RdOk(IF t.val = TypeNS THEN RDataNS(n.val) ELSE RDataCNAME(n.val),
                                  n.pos)
               [] t.val = TypeMX ->
                    LET a == RdArrayLen(buf, t.pos)
                        p == RdInt(buf, a.pos, 65535)
                        n == NameFromMsgpack(buf, p.pos, labels)
                    IN  IF ~a.ok THEN RdErr
                        ELSE IF a.val # 2 THEN RdErr
                        ELSE IF ~p.ok THEN RdErr
                        ELSE IF ~n.ok THEN RdErr
                        ELSE RdOk(RDataMX(p.val, n.val), n.pos)
               [] t.val = TypeSRV ->
                    LET a == RdArrayLen(buf, t.pos)
                        p == RdInt(buf, a.pos, 65535)
                        wt == RdInt(buf, p.pos, 65535)
                        pt == RdInt(buf, wt.pos, 65535)
                        n == NameFromMsgpack(buf, pt.pos, labels)
                    IN  IF ~a.ok THEN RdErr
                        ELSE IF a.val # 4 THEN RdErr
                        ELSE IF ~p.ok THEN RdErr
                        ELSE IF ~wt.ok THEN RdErr
                        ELSE IF ~pt.ok THEN RdErr
                        ELSE IF ~n.ok THEN RdErr
                        ELSE RdOk(RDataSRV(p.val, wt.val, pt.val, n.val), n.pos)
               [] t.val = TypeTXT ->
                    LET l == RdStrLen(buf, t.pos)
                        x == RdExact(buf, l.pos, l.val)
                    IN  IF ~l.ok THEN RdErr
                        ELSE IF ~x.ok THEN RdErr
                        \* String::from_utf8: the strings of the model are ASCII.
                        ELSE IF \E i \in 1..Len(x.val) : x.val[i] >= 128 THEN RdErr
                        ELSE RdOk(RDataTXT(x.val), x.pos)
               [] OTHER -> RdErr

\* <Record as Msgpack>::to_msgpack.
RecordToMsgpack(w, r) ==
    RDataToMsgpack(MpPut(NameToMsgpack(MpPut(w, MpArrayLen(4)), r.name), MpUint(r.ttl)),
                   r.rdata)

\* <Record as Msgpack>::from_msgpack.
RecordFromMsgpack(buf, pos, labels) ==
    LET a == RdArrayLen(buf, pos)
        n == NameFromMsgpack(buf, a.pos, labels)
        ttl == RdInt(buf, n.pos, I32Max)
        rdata == RDataFromMsgpack(buf, ttl.pos, labels)
    IN  IF ~a.ok THEN RdErr
        ELSE IF a.val # 4 THEN RdErr
        ELSE IF ~n.ok THEN RdErr
        ELSE IF ~ttl.ok THEN RdErr
        ELSE IF ~rdata.ok THEN RdErr
        ELSE RdOk(Record(n.val, ttl.val, rdata.val), rdata.pos)

\* Zone::iter: the owners in the order in which the map yields them, the
\* types of an owner in ascending or descending order, each list in order.
TypesInOrder(h, desc) ==
    LET n == Cardinality(DOMAIN h)
        asc == CHOOSE f \in [1..n -> DOMAIN h] :
                   \A i \in 1..n, j \in 1..n : i < j => f[i] < f[j]
    IN  [i \in 1..n |-> IF desc THEN asc[n + 1 - i] ELSE asc[i]]

ZoneIter(z, owners, desc) ==
    Flatten([i \in 1..Len(owners) |->
                LET h == z.records[owners[i]]
                    ts == TypesInOrder(h, desc)
                IN  Flatten([j \in 1..Len(ts) |-> h[ts[j]]])])

\* Zone::len.
ZoneLen(z) ==
    LET RECURSIVE Sum(_)
        Sum(S) == IF S = {} THEN 0
                  ELSE LET k == CHOOSE x \in S : TRUE
                       IN  Len(z.records[k[1]][k[2]]) + Sum(S \ {k})
    IN  Sum({k \in (DOMAIN z.records) \X UNION {DOMAIN z.records[o] : o \in DOMAIN z.records} :
                 k[2] \in DOMAIN z.records[k[1]]})

RECURSIVE RecordsToMsgpack(_, _)
RecordsToMsgpack(w, rs) ==
    IF rs = <<>> THEN w
    ELSE LET w2 == RecordToMsgpack(w, Head(rs))
         IN  \* The file stays within the integers of the model.
             IF Len(w2.bytes) <= I32Max THEN RecordsToMsgpack(w2, Tail(rs)) ELSE w2

\* A faulty count of the bytes before a label in the pool: always one.
LabelHeaderLen_one(n) == 1

\* if label.len() < 32 { 1 } else { 2 }
LabelHeaderLen(n) == IF n < 32 THEN 1 ELSE 2

\* The pool as written: for each label its length header and its bytes.
PoolBytes(labels) == Flatten([i \in 1..Len(labels) |-> MpStrLen(Len(labels[i])) \o labels[i]])

RECURSIVE PoolCounted(_)
PoolCounted(labels) ==
    IF labels = <<>> THEN 0
    ELSE Len(Head(labels)) + LabelHeaderLen(Len(Head(labels))) + PoolCounted(Tail(labels))

\* Zone::write_to, the records visited in the order rs.  pool_at is the number of
\* bytes written before the array header of the pool.
write_to(z, rs) ==
    LET w0 == NameToMsgpack(MpW(MpArrayLen(5), <<>>), z.origin)
        w1 == MpPut(w0, MpUint(z.serial) \o MpArrayLen(ZoneLen(z)))
        w2 == RecordsToMsgpack(w1, rs)
        hdr == MpArrayLen(Len(w2.labels))
        bytes_written == (CASE hdr[1] = 220 -> 3 [] hdr[1] = 221 -> 5 [] OTHER -> 1)
                             + PoolCounted(w2.labels)
    IN  [bytes |-> w2.bytes \o hdr \o PoolBytes(w2.labels) \o MpU64(bytes_written + 9),
         pool_at |-> Len(w2.bytes),
         labels |-> w2.labels]

\* Zone::read_from, the loop over the labels of the pool.
RECURSIVE ReadLabels(_, _, _, _)
ReadLabels(buf, pos, left, labels) ==
    IF left = 0 THEN RdOk(labels, pos)
    ELSE LET len == RdStrLen(buf, pos)
             s == RdExact(buf, len.pos, len.val)
         IN  IF ~len.ok THEN RdErr
             ELSE IF ~s.ok THEN RdErr
             ELSE IF ~(Len(s.val) < 64) THEN RdErr
             ELSE ReadLabels(buf, s.pos, left - 1,
                             Append(labels, [i \in 1..Len(s.val) |->
                                                 to_ascii_lowercase(s.val[i])]))

\* Zone::read_from, the loop over the records.
RECURSIVE ReadRecords(_, _, _, _, _)
ReadRecords(buf, pos, labels, left, z) ==
    IF left = 0 THEN [ok |-> TRUE, zone |-> z]
    ELSE LET r == RecordFromMsgpack(buf, pos, labels)
         IN  IF ~r.ok THEN RdErr
             ELSE ReadRecords(buf, r.pos, labels, left - 1, push(z, r.val))

\* Zone::read_from.  A seek before the start of the file is an error.
read_from(buf) ==
    LET five == RdArrayLen(buf, 0)
        label_offset == RdU64(buf, Len(buf) - 9)
        label_len == RdArrayLen(buf, Len(buf) - label_offset.val)
        labels == ReadLabels(buf, label_len.pos, label_len.val, <<>>)
        origin == NameFromMsgpack(buf, 1, labels.val)
        serial == RdInt(buf, origin.pos, I32Max)
        record_len == RdArrayLen(buf, serial.pos)
    IN  IF ~five.ok THEN RdErr
        ELSE IF five.val # 5 THEN RdErr
        ELSE IF Len(buf) < 9 THEN RdErr
        ELSE IF ~label_offset.ok THEN RdErr
        ELSE IF label_offset.val > Len(buf) THEN RdErr
        ELSE IF ~label_len.ok THEN RdErr
        ELSE IF ~labels.ok THEN RdErr
        ELSE IF ~origin.ok THEN RdErr
        ELSE IF ~serial.ok THEN RdErr
        ELSE IF ~record_len.ok THEN RdErr
        ELSE ReadRecords(buf, record_len.pos, labels.val, record_len.val,
                         ZoneNew(origin.val, serial.val))

(***************************************************************************)
(* Zones written to a file and read back.                                  *)
(***************************************************************************)
\* Labels of 31, 32 and 63 bytes: the lengths around the width of a string header.
LabelOf(n) == [i \in 1..n |-> 97 + (i % 26)]

\* The largest number of extra labels that a zone brings to the pool.
MaxFill == 17

\* Distinct two-digit labels.
FillLabel(i) == <<48 + (i \div 10), 48 + (i % 10)>>

FillName(k) == [i \in 1..k |-> FillLabel(i)]

Addr6 == [i \in 1..16 |-> 32 + i]

FileRecords ==
    { <<>>,
      << Record(<<Lx, La>>, Ttl, RDataA(Addr(7))),
         Record(<<Lx, La>>, Ttl, RDataTXT(<<104, 105>>)),
         Record(<<Lx, LaUp>>, 70000, RDataA(Addr(8))),
         Record(<<Lx, La>>, Ttl, RDataA(Addr(7))),
         Record(NameA, Ttl, RDataMX(10, <<Lm, La>>)),
         Record(NameA, 0, RDataNS(<<Ln, LaUp>>)),
         Record(<<Ld, La>>, Ttl, RDataCNAME(<<Lx, La>>)) >>,
      << Record(<<LabelOf(31), LabelOf(32)>>, 200, RDataAAAA(Addr6)),
         Record(<<LabelOf(63)>>, Ttl, RDataSRV(0, 300, 70000 - 4465, <<LabelOf(32), Lw>>)),
         Record(<<LabelOf(63)>>, Ttl, RDataPTR(Addr(9))),
         Record(Root, Ttl, RDataPTR(Addr6)) >>,
      << Record(NameA, Ttl, RDataTXT(<<>>)),
         Record(NameA, Ttl, RDataTXT(LabelOf(40))),
         Record(NameBA, Ttl, RDataTXT(LabelOf(31))) >> }

\* Origins and serials of the zones written: serials of one, two, three and
\* five bytes in the file.
FileHeads ==
    { <<Root, 1>>, <<NameA, 200>>, <<NameA, 70000>>, <<<<LaUp, LabelOf(32)>>, I32Max>> }

FileZones ==
    { with_records(h[1], h[2], rs \o (IF k = 0 THEN <<>>
                                      ELSE <<Record(FillName(k), Ttl, RDataA(Addr(k)))>>)) :
        h \in FileHeads, rs \in FileRecords, k \in {0} \cup (MaxFill - 6)..MaxFill }

\* The orders in which a map can yield its keys.
Orders(S) ==
    {f \in [1..Cardinality(S) -> S] : \A i, j \in 1..Cardinality(S) : f[i] = f[j] => i = j}

\* Zone::write_to on a zone, into an empty file.
WriteZone(z, owners, desc) ==
    /\ op = Idle
    /\ op' = [kind |-> "file", zone |-> z, file |-> write_to(z, ZoneIter(z, owners, desc)),
              read |-> FALSE]
    /\ UNCHANGED <<zones, conn, lock, tasks>>

\* Zone::read_from on the file just written.
ReadZone ==
    /\ op.kind = "file"
    /\ ~op.read
    /\ op' = [kind |-> "file", zone |-> op.zone, file |-> op.file, read |-> TRUE,
              result |-> read_from(op.file.bytes)]
    /\ UNCHANGED <<zones, conn, lock, tasks>>

NextFile ==
    \/ \E z \in FileZones, desc \in BOOLEAN :
          \E owners \in Orders(DOMAIN z.records) : WriteZone(z, owners, desc)
    \/ ReadZone
    \/ Return

SpecFile == Init /\ [][NextFile]_vars

\* PartialEq for RData and Record (derived: field by field, names by NameEq).
RDataEq(a, b) ==
    /\ a.type = b.type
    /\ a.addr = b.addr
    /\ NameEq(a.name, b.name)
    /\ DOMAIN a = DOMAIN b
    /\ \A f \in DOMAIN a \ {"name"} : a[f] = b[f]

RecordEq(a, b) == NameEq(a.name, b.name) /\ a.ttl = b.ttl /\ RDataEq(a.rdata, b.rdata)

RecordsEq(v, w) == Len(v) = Len(w) /\ \A i \in 1..Len(v) : RecordEq(v[i], w[i])

\* PartialEq for Zone (derived): origin, serial and the map of records.
ZoneEq(a, b) ==
    /\ NameEq(a.origin, b.origin)
    /\ a.serial = b.serial
    /\ Cardinality(DOMAIN a.records) = Cardinality(DOMAIN b.records)
    /\ \A k \in DOMAIN a.records :
          /\ MapHas(b.records, k)
          /\ DOMAIN MapGet(b.records, k) = DOMAIN a.records[k]
          /\ \A t \in DOMAIN a.records[k] :
                RecordsEq(a.records[k][t], MapGet(b.records, k)[t])

\* The back-offset in the last eight bytes of a file.
BackOffset(buf) ==
    IF Fits64(buf, Len(buf) - 8) THEN BE32(buf, Len(buf) - 4) ELSE 0 - 1

ZoneLabels(z) ==
    {z.origin[i] : i \in 1..Len(z.origin)}
      \cup UNION {UNION {UNION {{z.records[k][t][j].name[i] : i \in 1..Len(z.records[k][t][j].name)}
                                  \cup {z.records[k][t][j].rdata.name[i] :
                                          i \in 1..Len(z.records[k][t][j].rdata.name)} :
                                j \in 1..Len(z.records[k][t])} :
                         t \in DOMAIN z.records[k]} :
                  k \in DOMAIN z.records}

\* C23: a zone whose labels are 1 to 63 bytes long, written by write_to and read
\* back by read_from, is read without error and equals the zone written (origin,
\* serial and the records of each owner and type in order), whatever the number
\* of labels in the pool; the back-offset at the end of the file is the distance
\* from the end of the file to the array header of the pool.
C23_WriteThenRead ==
    op.kind = "file" =>
        /\ \A l \in ZoneLabels(op.zone) : Len(l) >= 1 /\ Len(l) <= 63
        /\ BackOffset(op.file.bytes) = Len(op.file.bytes) - op.file.pool_at
        /\ op.read => /\ op.result.ok
                      /\ ZoneEq(op.result.zone, op.zone)

\* A zone with labels of 32 and 63 bytes and upper case letters was written with a
\* pool of 16 labels, the first count whose array header takes three bytes, and
\* read back.
C23_Witness ==
    /\ op.kind = "file"
    /\ op.read
    /\ op.result.ok
    /\ Len(op.file.labels) = 16
    /\ \E i, j, k \in 1..16 : /\ Len(op.file.labels[i]) = 32
                              /\ Len(op.file.labels[j]) = 63
                              /\ op.file.labels[k] = LaUp
    /\ ZoneLen(op.zone) > 1

(***************************************************************************)
(* Zones edited by push and remove.                                        *)
(***************************************************************************)
\* The list without its element at index i.
RemoveAt(v, i) == SubSeq(v, 1, i - 1) \o SubSeq(v, i + 1, Len(v))

\* The map without the key equal to q.
MapRemove(m, q) == [k \in DOMAIN m \ MapKeys(m, q) |-> m[k]]

\* Zone::remove, from the list found on: the list without the first record equal
\* to the one given, then the type without an empty list, then the owner without
\* an empty map.
RemoveFrom(z, record, v2) ==
    LET h == MapGet(z.records, record.name)
        t == record_type(record)
        h2 == IF v2 = <<>> THEN [x \in DOMAIN h \ {t} |-> h[x]]
              ELSE [h EXCEPT ![t] = v2]
    IN  [z EXCEPT !.records = IF DOMAIN h2 = {} THEN MapRemove(z.records, record.name)
                              ELSE MapPut(z.records, record.name, h2)]

\* A faulty remove: every record equal to the one given leaves the list.
remove_every_equal(z, record) ==
    IF MapHas(z.records, record.name)
       /\ record_type(record) \in DOMAIN MapGet(z.records, record.name)
    THEN RemoveFrom(z, record,
                    SelectSeq(MapGet(z.records, record.name)[record_type(record)],
                              LAMBDA x : ~RecordEq(x, record)))
    ELSE z

\* Zone::remove.
remove(z, record) ==
    IF MapHas(z.records, record.name)
       /\ record_type(record) \in DOMAIN MapGet(z.records, record.name)
    THEN LET v == MapGet(z.records, record.name)[record_type(record)]
             found == {i \in 1..Len(v) : RecordEq(v[i], record)}
             pos == CHOOSE i \in found : \A j \in found : i <= j
         IN  RemoveFrom(z, record, IF found = {} THEN v ELSE RemoveAt(v, pos))
    ELSE z

\* The records pushed and removed: two spellings of one record, records that
\* differ in one field, and owners with one and with two types.
EditRecords ==
    { Record(<<Lx, La>>, Ttl, RDataA(Addr(7))),
      Record(<<Lx, LaUp>>, Ttl, RDataA(Addr(7))),
      Record(<<Lx, La>>, Ttl, RDataA(Addr(8))),
      Record(<<Lx, La>>, 0, RDataA(Addr(7))),
      Record(<<Lx, La>>, Ttl, RDataTXT(<<104, 105>>)),
      Record(NameA, Ttl, RDataNS(<<Ln, La>>)) }

\* The largest number of calls made on one zone.
MaxEdits == 4

\* Some record of the zone equals the one given.
Present(z, r) ==
    \E k \in DOMAIN z.records : \E t \in DOMAIN z.records[k] :
        \E i \in 1..Len(z.records[k][t]) : RecordEq(z.records[k][t][i], r)

\* The zone under edit: a new zone when no call was made on it yet.
Edited == IF op = Idle THEN ZoneNew(NameA, 1) ELSE op.zone

EditCount(f) == IF op = Idle THEN 0 ELSE op[f]

EditStep(call, r, z, found) ==
    /\ op = Idle \/ op.kind = "edit"
    /\ EditCount("calls") < MaxEdits
    /\ op' = [kind |-> "edit", zone |-> z, call |-> call, record |-> r, before |-> Edited,
              calls |-> EditCount("calls") + 1,
              pushes |-> EditCount("pushes") + (IF call = "push" THEN 1 ELSE 0),
              matched |-> EditCount("matched") + (IF found THEN 1 ELSE 0)]
    /\ UNCHANGED <<zones, conn, lock, tasks>>

\* Zone::push on the zone.
Push(r) == EditStep("push", r, push(Edited, r), FALSE)

\* Zone::remove on the zone.
Remove(r) == EditStep("remove", r, remove(Edited, r), Present(Edited, r))

NextEdit ==
    \/ \E r \in EditRecords : Push(r)
    \/ \E r \in EditRecords : Remove(r)
    \/ Return

SpecEdit == Init /\ [][NextEdit]_vars

\* The list of an owner and a type in a zone, empty when the zone has none.
ListOf(z, k, t) ==
    IF MapHas(z.records, k) /\ t \in DOMAIN MapGet(z.records, k)
    THEN MapGet(z.records, k)[t]
    ELSE <<>>

\* C24: after any sequence of push and remove calls no owner maps to an empty
\* type map and no type to an empty list; a remove of a record that is present
\* takes exactly one occurrence out of the list of its owner and type and leaves
\* every other record where it was; a remove of a record that is absent leaves
\* the zone as it was; and len is the number of pushes minus the number of
\* removes that found a match.
C24_PushRemove ==
    op.kind = "edit" =>
        /\ \A k \in DOMAIN op.zone.records :
              /\ DOMAIN op.zone.records[k] # {}
              /\ \A t \in DOMAIN op.zone.records[k] : op.zone.records[k][t] # <<>>
        /\ ZoneLen(op.zone) = op.pushes - op.matched
        /\ (op.call = "remove" /\ ~Present(op.before, op.record)) => op.zone = op.before
        /\ (op.call = "remove" /\ Present(op.before, op.record)) =>
              /\ DOMAIN op.zone.records \subseteq DOMAIN op.before.records
              /\ \A k \in DOMAIN op.before.records : \A t \in DOMAIN op.before.records[k] :
                    LET v == op.before.records[k][t]
                    IN  IF NameEq(k, op.record.name) /\ t = record_type(op.record)
                        THEN \E i \in 1..Len(v) :
                                /\ RecordEq(v[i], op.record)
                                /\ ListOf(op.zone, k, t) = RemoveAt(v, i)
                        ELSE ListOf(op.zone, k, t) = v

\* A remove took one of two equal records out of a list that holds another
\* record as well, and the other of the two is still there.
C24_Witness ==
    /\ op.kind = "edit"
    /\ op.call = "remove"
    /\ Present(op.before, op.record)
    /\ Present(op.zone, op.record)
    /\ ZoneLen(op.zone) = 2
    /\ op.matched = 1

(***************************************************************************)
(* Single records encoded into a response that already holds names.        *)
(***************************************************************************)
\* The longest TXT string encoded.
MaxTxt == 511

TxtOf(l) == [i \in 1..l |-> 97 + (i % 26)]

\* The names written before the record, after the twelve bytes of a header.
PriorNames ==
    { <<>>, <<NameA>>, <<<<Lx, La>>>>, <<<<LaUp>>, NameBA>>, <<mname>>,
      <<rname, <<LabelZone>>>>, <<<<LabelInAddr, LabelArpa>>>>,
      <<NameFromIp(Addr(7))>>, <<<<LabelArpa>>, NameFromIp(Addr6)>> }

PriorEncs == {EncodeAll(FillTo(EncNew, 12), ns, <<>>).enc : ns \in PriorNames}

\* Records of every type, their names with and without suffixes written before.
TypedRecords ==
    { Record(<<Lx, La>>, Ttl, RDataA(Addr(7))),
      Record(<<Lx, La>>, Ttl, RDataAAAA(Addr6)),
      Record(<<Ld, La>>, Ttl, RDataCNAME(<<Lx, La>>)),
      Record(<<Ld, La>>, Ttl, RDataCNAME(<<Ld, LaUp>>)),
      Record(NameA, Ttl, RDataNS(<<Ln, Lb>>)),
      Record(Root, Ttl, RDataNS(Root)),
      Record(NameA, Ttl, RDataMX(10, <<Lm, La>>)),
      Record(NameBA, Ttl, RDataMX(10, <<LabelOf(63), LabelOf(63), LabelOf(63), LabelOf(61)>>)),
      Record(NameFromIp(Addr(7)), Ttl, RDataPTR(Addr(7))),
      Record(NameA, Ttl, RDataPTR(Addr(8))),
      Record(<<Lx, La>>, Ttl, RDataPTR(Addr6)),
      Record(<<Lw, Lx, La>>, Ttl, RDataSRV(1, 2, 443, <<Lx, La>>)),
      Record(<<Lw>>, Ttl, RDataSRV(1, 2, 443, <<LabelZone>>)) }

TxtRecords == {Record(<<Lx, La>>, Ttl, RDataTXT(TxtOf(l))) : l \in 0..MaxTxt}

SoaRecords ==
    {[origin |-> o, serial |-> n] :
        o \in {Root, NameA, <<LabelZone>>, mname, rname, <<LabelWob, LabelZone>>},
        n \in {1, 70000}}

\* <RecordTrait as ProtocolEncode>::encode on a stored record.
EncodeRecord(enc, r) ==
    /\ op = Idle
    /\ op' = [kind |-> "record", soa |-> FALSE, prior |-> enc, record |-> r,
              out |-> RecordEncode(enc, r)]
    /\ UNCHANGED <<zones, conn, lock, tasks>>

\* <RecordTrait as ProtocolEncode>::encode on the synthetic SOA of a zone.
EncodeSoa(enc, soa) ==
    /\ op = Idle
    /\ op' = [kind |-> "record", soa |-> TRUE, prior |-> enc, record |-> soa,
              out |-> SoaEncode(enc, soa)]
    /\ UNCHANGED <<zones, conn, lock, tasks>>

NextRecord ==
    \/ \E enc \in PriorEncs, r \in TypedRecords : EncodeRecord(enc, r)
    \/ \E r \in TxtRecords : EncodeRecord(FillTo(EncNew, 12), r)
    \/ \E enc \in PriorEncs, soa \in SoaRecords : EncodeSoa(enc, soa)
    \/ Return

SpecRecord == Init /\ [][NextRecord]_vars

\* The record written by the call in progress, read back from the bytes.
WrittenRR == ParseRR(op.out.buf, Len(op.prior.buf))

WrittenRData == SubSeq(op.out.buf, WrittenRR.rstart + 1, Len(op.out.buf))

\* The segments of TXT rdata: each a length octet and that many bytes.
RECURSIVE TxtSegments(_)
TxtSegments(rdata) ==
    IF rdata = <<>> THEN [ok |-> TRUE, segs |-> <<>>]
    ELSE IF Len(rdata) - 1 < rdata[1] THEN [ok |-> FALSE, segs |-> <<>>]
    ELSE LET rest == TxtSegments(SubSeq(rdata, rdata[1] + 2, Len(rdata)))
         IN  [ok |-> rest.ok, segs |-> <<SubSeq(rdata, 2, rdata[1] + 1)>> \o rest.segs]

TxtWritten ==
    /\ op.kind = "record"
    /\ ~op.soa
    /\ record_type(op.record) = TypeTXT
    /\ op.out.ok

\* The number of segments for a string of l bytes: one for the empty string.
SegmentsFor(l) == IF l = 0 THEN 1 ELSE (l + 254) \div 255

\* The rdata written for a TXT record is n segments that together hold the string.
TxtWrittenAs(n) ==
    LET t == TxtSegments(WrittenRData)
    IN  /\ t.ok
        /\ Len(t.segs) = n
        /\ \A i \in 1..Len(t.segs) : Len(t.segs[i]) <= 255
        /\ Flatten(t.segs) = op.record.rdata.text

\* C25: TXT rdata is written as length-prefixed segments of at most 255 bytes:
\* strings of 0, 254, 255, 256 and 510 bytes are written as 1, 1, 1, 2 and 2
\* segments, the empty string as the single octet 0.
C25_TxtSegments ==
    TxtWritten =>
        LET l == Len(op.record.rdata.text)
        IN  /\ l \in {0, 254, 255, 256, 510} => TxtWrittenAs(SegmentsFor(l))
            /\ l = 0 => WrittenRData = <<0>>

\* A string of one byte or more is written as the segments that C25 states.
TxtSegmentsNonEmpty ==
    (TxtWritten /\ op.record.rdata.text # <<>>) =>
        TxtWrittenAs(SegmentsFor(Len(op.record.rdata.text)))

\* The empty string is written as no octet at all, with RDLENGTH 0.
TxtEmptyWritesNothing ==
    (TxtWritten /\ op.record.rdata.text = <<>>) =>
        WrittenRData = <<>> /\ WrittenRR.rdlen = 0

\* C28: for every record written, of each supported type and the synthetic SOA,
\* and whatever names the response holds already, the RDLENGTH field is the
\* number of rdata bytes written after it.
C28_RdLength ==
    (op.kind = "record" /\ op.out.ok) =>
        /\ WrittenRR.ok
        /\ WrittenRR.type = (IF op.soa THEN TypeSOA ELSE record_type(op.record))
        /\ WrittenRR.rstart + WrittenRR.rdlen = Len(op.out.buf)

\* A synthetic SOA was written into a response that already holds its MNAME, so
\* that the rdata starts with a pointer and is shorter than it is uncompressed.
C28_Witness ==
    /\ op.kind = "record"
    /\ op.soa
    /\ op.out.ok
    /\ MapHas(op.prior.names, mname)
    /\ WrittenRR.ok
    /\ WrittenRR.rdlen = 2 + NameEncodeLen(EmptyMap, rname).len + 20
    /\ op.out.buf[WrittenRR.rstart + 1] >= 192

(***************************************************************************)
(* Names parsed from text and written to a response.                       *)
(***************************************************************************)
Dot == <<46>>

\* byte_ok: an ASCII letter, a digit or a hyphen.
byte_ok(b) == is_ascii_alphabetic(b) \/ (b >= 48 /\ b <= 57) \/ b = 45

\* label_from_str on ASCII text.  A label with another ASCII character is
\* refused by the UTS #46 conversion under the STD3 rules.
label_from_str(s) ==
    IF s = <<>> THEN [ok |-> FALSE, err |-> "EmptyLabel"]
    ELSE IF \/ s[1] = 95 /\ \A i \in 2..Len(s) : byte_ok(s[i])
            \/ \A i \in 1..Len(s) : byte_ok(s[i])
    THEN IF Len(s) > 63 THEN [ok |-> FALSE, err |-> "LabelTooLong"]
         ELSE [ok |-> TRUE, label |-> [i \in 1..Len(s) |-> to_ascii_lowercase(s[i])]]
    ELSE [ok |-> FALSE, err |-> "InvalidLabel"]

\* str::split('.'): the pieces between the dots.
Split(s) ==
    LET dots == {i \in 1..Len(s) : s[i] = 46}
        n == Cardinality(dots) + 1
        \* The position of the k-th dot; the ends of the text for k = 0 and k = n.
        At(k) == IF k = 0 THEN 0
                 ELSE IF k = n THEN Len(s) + 1
                 ELSE CHOOSE i \in dots : Cardinality({j \in dots : j < i}) = k - 1
    IN  [k \in 1..n |-> SubSeq(s, At(k - 1) + 1, At(k) - 1)]

\* <Name as FromStr>::from_str.
from_str(s) ==
    IF s = <<>> \/ s = Dot THEN [ok |-> TRUE, name |-> <<>>]
    ELSE LET t == IF s[Len(s)] = 46 THEN SubSeq(s, 1, Len(s) - 1) ELSE s
             pieces == Split(t)
             ls == [i \in 1..Len(pieces) |-> label_from_str(pieces[i])]
         IN  IF \E i \in 1..Len(ls) : ~ls[i].ok
             THEN [ok |-> FALSE,
                   err |-> ls[CHOOSE i \in 1..Len(ls) :
                                  ~ls[i].ok /\ \A j \in 1..(i - 1) : ls[j].ok].err]
             ELSE [ok |-> TRUE, name |-> [i \in 1..Len(ls) |-> ls[i].label]]

\* Text of labels of the given lengths, joined by dots.
RECURSIVE Dotted(_)
Dotted(lens) ==
    IF lens = <<>> THEN <<>>
    ELSE IF Len(lens) = 1 THEN [i \in 1..lens[1] |-> 65 + (i % 26)]
    ELSE [i \in 1..lens[1] |-> 97 + (i % 26)] \o Dot \o Dotted(Tail(lens))

\* The longest label in the texts parsed.
MaxLabel == 64

\* Texts around the limits: names of four and five labels whose encoding takes
\* up to 255 octets and more, labels of up to 64 bytes, an empty label.
ParseTexts ==
    {Dotted(<<63, 63, 63, k>>) : k \in 1..MaxLabel}
      \cup {Dotted(<<63, 63, 63, 60, k>>) : k \in 1..5}
      \cup {Dotted(<<k>>) : k \in 0..MaxLabel}
      \cup {Dotted(<<1, 0, 1>>), Dot, <<95, 97>>, <<97, 95>>}

\* Name::from_str on a text, with or without the final dot, then
\* <Name as ProtocolEncode>::encode of the name into a response.
ParseName(s) ==
    LET n == from_str(s)
    IN  /\ op = Idle
        /\ op' = [kind |-> "parse", text |-> s, out |-> n,
                  enc |-> IF n.ok THEN NameEncode(FillTo(EncNew, 12), n.name)
                          ELSE EncFail(EncNew)]
        /\ UNCHANGED <<zones, conn, lock, tasks>>

NextParse ==
    \/ \E s \in ParseTexts : ParseName(s)
    \/ \E s \in ParseTexts : ParseName(s \o Dot)
    \/ Return

SpecParse == Init /\ [][NextParse]_vars

\* The octets that the uncompressed encoding of a well-formed text takes: a
\* length octet in place of every dot, one before the first label, and the root.
WireOctets(s) ==
    IF s = <<>> \/ s = Dot THEN 1
    ELSE IF s[Len(s)] = 46 THEN Len(s) + 1
    ELSE Len(s) + 2

\* The text is labels of 1 to 63 letters separated by single dots.
WellFormed(s) ==
    LET t == IF s # <<>> /\ s[Len(s)] = 46 THEN SubSeq(s, 1, Len(s) - 1) ELSE s
        pieces == Split(t)
    IN  \A i \in 1..Len(pieces) :
            /\ Len(pieces[i]) \in 1..63
            /\ \A j \in 1..Len(pieces[i]) : is_ascii_alphabetic(pieces[i][j])

\* C26: a name whose uncompressed encoding takes exactly 255 octets is accepted
\* and encodes; a name whose encoding would take 256 octets or more is rejected,
\* so that no name of more than 255 octets is written to a response.
C26_NameLimit ==
    (op.kind = "parse" /\ WellFormed(op.text)) =>
        /\ WireOctets(op.text) = 255 =>
              op.out.ok /\ op.enc.ok /\ Len(op.enc.buf) = 12 + 255
        /\ WireOctets(op.text) >= 256 => ~op.out.ok
        /\ op.enc.ok => Len(op.enc.buf) <= 12 + 255

\* A name of up to 255 octets is accepted and written in full.
NameWithinLimitEncodes ==
    (op.kind = "parse" /\ WellFormed(op.text) /\ WireOctets(op.text) <= 255) =>
        op.out.ok /\ op.enc.ok /\ Len(op.enc.buf) = 12 + WireOctets(op.text)

\* A name of 256 octets or more, its labels within 63 bytes, is accepted and
\* written in full as well.
NameBeyondLimitEncodes ==
    (op.kind = "parse" /\ WellFormed(op.text) /\ WireOctets(op.text) >= 256) =>
        op.out.ok /\ op.enc.ok /\ Len(op.enc.buf) = 12 + WireOctets(op.text)

ParsedAtLimit == op.kind = "parse" /\ WellFormed(op.text) /\ WireOctets(op.text) = 255

ParsedEmptyLabel == op.kind = "parse" /\ ~op.out.ok /\ op.out.err = "EmptyLabel"

ParsedLongLabel == op.kind = "parse" /\ ~op.out.ok /\ op.out.err = "LabelTooLong"

(***************************************************************************)
(* The zone map over a sequence of loads.                                  *)
(***************************************************************************)
\* C27: across any sequence of zone loads, accepted, ignored or failing, the
\* set of origins held never loses a member and the serial held for an origin
\* never decreases.
C27_ZonesOnlyGrow ==
    [][\A k \in DOMAIN zones :
           /\ MapHas(zones', k)
           /\ MapGet(zones', k).serial >= zones[k].serial]_vars

\* A load has replaced a held zone by one of a higher serial while another
\* origin is held as well.
C27_Witness ==
    /\ op.kind = "load"
    /\ op.result = "true"
    /\ MapHas(op.before, op.file.origin)
    /\ MapGet(op.before, op.file.origin).serial < MapGet(zones, op.file.origin).serial
    /\ Cardinality(DOMAIN zones) > 1

(***************************************************************************)
(* Responses encoded for each outcome of a lookup.                         *)
(***************************************************************************)
RecX7 == Record(<<Lx, La>>, Ttl, RDataA(Addr(7)))

RecX8 == Record(<<Lx, La>>, Ttl, RDataA(Addr(8)))

RecN9 == Record(<<Ln, Lb, La>>, Ttl, RDataA(Addr(9)))

RecNsA == Record(NameA, Ttl, RDataNS(<<Ln, La>>))

RecNsB == Record(NameBA, Ttl, RDataNS(<<Ln, Lb, La>>))

RecNsB2 == Record(NameBA, Ttl, RDataNS(<<Lm, Lb, La>>))

RecCname == Record(<<Ld, La>>, Ttl, RDataCNAME(<<Lx, La>>))

\* The outcomes encoded: every variant of LookupResult, with sections of zero,
\* one and two records.
LookupOutcomes ==
    {Records(v) : v \in {<<RecX7>>, <<RecX7, RecX8>>, <<RecNsA>>, <<RecCname>>}}
      \cup {CNAMEResult(RecCname, f, a) :
              f \in {<<>>, <<RecX7>>, <<RecX7, RecX8>>}, a \in {<<>>, <<RecNsA>>, <<RecNsB, RecNsB2>>}}
      \cup {CNAMELookup(RecCname)}
      \cup {Delegated(a, g) :
              a \in {<<RecNsB>>, <<RecNsB, RecNsB2>>}, g \in {<<>>, <<RecN9>>, <<RecN9, RecX7>>}}
      \cup {NameExists(soa) : soa \in {[origin |-> NameA, serial |-> 1]}}
      \cup {NoName(soa) : soa \in {[origin |-> NameA, serial |-> 1], [origin |-> Root, serial |-> 2]}}
      \cup {NoZone}

RespondQueries ==
    {[id |-> 34346, name |-> n, record_type |-> t] :
        n \in {<<Ld, La>>, <<Lx, La>>, <<Lw, Lb, La>>, Root, <<Lx, LaUp>>},
        t \in {TypeA, TypeNS}}

\* <ResponseMessage as ProtocolEncode>::encode on a query and an outcome.
Respond(q, l) ==
    /\ op = Idle
    /\ op' = [kind |-> "respond", query |-> q, answer |-> l, out |-> ResponseEncode(q, l)]
    /\ UNCHANGED <<zones, conn, lock, tasks>>

NextRespond ==
    \/ \E q \in RespondQueries, l \in LookupOutcomes : Respond(q, l)
    \/ Return

SpecRespond == Init /\ [][NextRespond]_vars

\* The sections that an outcome stands for: answers, authorities, additionals.
\* An entry is a stored record or the synthetic SOA of a zone.
Stored(v) == [i \in 1..Len(v) |-> [soa |-> FALSE, r |-> v[i]]]

Sections(l) ==
    CASE l.kind = "Records" -> <<Stored(l.recs), <<>>, <<>>>>
      [] l.kind = "CNAME" -> <<Stored(<<l.cname>> \o l.found), Stored(l.authorities), <<>>>>
      [] l.kind = "CNAMELookup" -> <<Stored(<<l.cname>>), <<>>, <<>>>>
      [] l.kind = "Delegated" -> <<<<>>, Stored(l.authorities), Stored(l.glue_records)>>
      [] l.kind \in {"NameExists", "NoName"} -> <<<<>>, <<>>, <<[soa |-> TRUE, r |-> l.soa]>>>>
      [] l.kind = "NoZone" -> <<<<>>, <<>>, <<>>>>

\* The record read from the response is the entry e.
RRIsEntry(buf, rr, e) ==
    IF e.soa THEN SameName(rr.name, e.r.origin) /\ rr.type = TypeSOA /\ rr.class = 1
    ELSE RRIs(buf, rr, e.r)

\* The records read from the response after the question.
RespondRRs ==
    ParseRRs(op.out.buf, 12 + NameEncodeLen(EmptyMap, op.query.name).len + 4)

HeaderCount(buf, i) == BE16(buf[5 + 2 * i], buf[6 + 2 * i])

\* C29: for every lookup outcome, ANCOUNT, NSCOUNT and ARCOUNT sum to the
\* number of records written after the question, and the records are written
\* in section order, answers, authorities, additionals, as many for each
\* section as its count states.
C29_CountsMatchRecords ==
    (op.kind = "respond" /\ op.out.ok) =>
        LET sec == Sections(op.answer)
            all == sec[1] \o sec[2] \o sec[3]
            buf == op.out.buf
        IN  /\ RespondRRs.ok
            /\ Len(RespondRRs.rrs)
                 = HeaderCount(buf, 1) + HeaderCount(buf, 2) + HeaderCount(buf, 3)
            /\ \A i \in 1..3 : HeaderCount(buf, i) = Len(sec[i])
            /\ Len(RespondRRs.rrs) = Len(all)
            /\ \A i \in 1..Len(all) : RRIsEntry(buf, RespondRRs.rrs[i], all[i])

\* A delegation with two authorities and two glue records was written.
C29_Witness ==
    /\ op.kind = "respond"
    /\ op.out.ok
    /\ op.answer.kind = "Delegated"
    /\ HeaderCount(op.out.buf, 2) = 2
    /\ HeaderCount(op.out.buf, 3) = 2
    /\ Len(RespondRRs.rrs) = 4

(***************************************************************************)
(* Names below a delegation and empty non-terminals.                       *)
(***************************************************************************)
\* n lies strictly below c.
Below(n, c) == Len(c) < Len(n) /\ IsSuffix(c, n)

\* The held zone k is the one that covers n with the longest origin.
Answering(k, n) ==
    /\ k \in DOMAIN zones
    /\ IsSuffix(k, n)
    /\ \A k2 \in DOMAIN zones : IsSuffix(k2, n) => Len(k2) <= Len(k)

\* The name asked lies below an owner of the answering zone k, other than its
\* origin, that holds NS records.
BelowCut(k, n) ==
    /\ Answering(k, n)
    /\ \E c \in DOMAIN zones[k].records :
          /\ TypeNS \in DOMAIN zones[k].records[c]
          /\ ~SameName(c, k)
          /\ Below(n, c)

\* The name asked holds nothing in the answering zone k and is an ancestor of
\* one of its owners.
EmptyNonTerminal(k, n) ==
    /\ Answering(k, n)
    /\ ~NamePresent(zones[k], n)
    /\ \E o \in DOMAIN zones[k].records : Below(o, n)

\* The response is negative: no answer, no authority, the SOA of the zone k as
\* the one additional record, and the RCODE given.
NegativeFrom(k, rc) ==
    /\ op.out.lookup.kind = (IF rc = 3 THEN "NoName" ELSE "NameExists")
    /\ SameName(op.out.lookup.soa.origin, k)
    /\ ReplyRCODE(op.out.reply) = rc
    /\ ReplyANCOUNT(op.out.reply) = 0
    /\ ReplyNSCOUNT(op.out.reply) = 0
    /\ ReplyARCOUNT(op.out.reply) = 1
    /\ ReplyRRs.ok
    /\ Len(ReplyRRs.rrs) = 1
    /\ ReplyRRs.rrs[1].type = TypeSOA
    /\ SameName(ReplyRRs.rrs[1].name, k)

BelowCutAbsent ==
    /\ QueryDecoded
    /\ \E k \in DOMAIN zones : BelowCut(k, op.params.name) /\ NegativeFrom(k, 3)

BelowCutOtherType ==
    /\ QueryDecoded
    /\ \E k \in DOMAIN zones : BelowCut(k, op.params.name) /\ NegativeFrom(k, 0)

EmptyNonTerminalAsked ==
    /\ QueryDecoded
    /\ \E k \in DOMAIN zones : EmptyNonTerminal(k, op.params.name) /\ NegativeFrom(k, 3)
====
